---------------------------- MODULE Spec2Model ----------------------------
(***************************************************************************)
(* A state-machine model of the 2D room planner's canvas: the pointer      *)
(* gesture handlers of CanvasView.tsx (handleMouseDown / handleMouseMove / *)
(* handleMouseUp), its keyboard handler, its geometric queries             *)
(* (findElementAt, findNearestLineOrWall, pointToLineDistance, handles)    *)
(* and the element/history callbacks of App.tsx.                           *)
(*                                                                         *)
(* Numbers.  World and screen coordinates are integers.  Angles are whole  *)
(* quarter turns (1 = pi/2), so cos and sin are exact; the lines of the    *)
(* model are axis-parallel.  A distance is carried as its square, a        *)
(* rational <<num, den>>, and compared by cross-multiplication.  A value   *)
(* that involves the door leaf angle (cos 30 = sqrt(3)/2) is a pair        *)
(* <<a, b>> standing for a + b*sqrt(3).  A centimetre value is the         *)
(* rational <<pixels, pixelsPerCm>>.                                       *)
(*                                                                         *)
(* React.  A handler reads the props and state of the last render (the     *)
(* unprimed variables) and queues state updates; the next render shows     *)
(* them all.  A handler is therefore one action; the set-state calls it    *)
(* makes are collected in a record of updates that Commit applies.         *)
(***************************************************************************)
EXTENDS Integers, Sequences, FiniteSets, TLC

VARIABLES
    project,               \* App: the current project [elements, pixelsPerCm]
    selectedElementIds,    \* App: sequence of selected ids
    tool,                  \* App: current tool
    history,               \* App: sequence of project snapshots
    historyIndex,          \* App: index into history (0-based, -1 when empty)
    viewTransform,         \* CanvasView: [scaleN, scaleD, offsetX, offsetY]
    isPanning, panStart,
    isDrawing, drawStart, tempElement,
    isDragging, dragStart, dragReferenceId, elementStartPositions,
    doorOriginalRotation,
    copiedElements,
    isSelecting, selectionBox, potentialSelection,
    isRotating, rotationStart,
    isScaling, scaleHandle,
    showSettings,
    nextId,                \* generateId: the next fresh id
    buttons,               \* environment: the mouse buttons currently held
    mouse,                 \* environment: where the pointer is, and whether on the canvas
    events,                \* environment: the number of events delivered so far
    probe                  \* the last query of a geometric function and its result

vars == <<project, selectedElementIds, tool, history, historyIndex, viewTransform,
          isPanning, panStart, isDrawing, drawStart, tempElement,
          isDragging, dragStart, dragReferenceId, elementStartPositions,
          doorOriginalRotation, copiedElements,
          isSelecting, selectionBox, potentialSelection,
          isRotating, rotationStart, isScaling, scaleHandle,
          showSettings, nextId, buttons, mouse, events, probe>>

-----------------------------------------------------------------------------
(* Bounds of the model *)

\* the largest number of elements a project may hold (adds are disabled beyond)
MaxElements == 4
\* the largest number of history entries (history-recording operations are disabled beyond)
MaxHistory == 2
\* world coordinates of every element stay within -MaxCoord .. MaxCoord
MaxCoord == 120
\* the view offset stays within -MaxOffset .. MaxOffset
MaxOffset == 10
\* element rotations stay within -MaxTurns .. MaxTurns quarter turns
MaxTurns == 4
\* the number of events of a run of the pointer machine (Spec)
MaxEvents == 9
\* the number of events of a run with the keyboard and the properties panel (SpecEdit)
MaxEditEvents == 6
\* the numerator and the denominator of the view scale stay within MaxScaleTerm
MaxScaleTerm == 10000

(* Program constants *)

PixelsPerCmDefault == 10
HitTolerance == 10
DoorHitTolerance == 5
SnapThreshold == 30
HandleSize == 8
RotateHandleOffset == 30
MinScaleSize == 10
BoxSelectThreshold == 5
MinFontSize == 8
DefaultFontSize == 16
DoorWidthCm == 80
PasteOffset == 20

-----------------------------------------------------------------------------
(* Optional values, records *)

None == <<>>
Some(v) == <<v>>
NoId == 0

Has(e, k) == k \in DOMAIN e
Get(e, k, d) == IF k \in DOMAIN e THEN e[k] ELSE d
\* { ...e, ...u }
Merge(e, u) == [k \in DOMAIN e \cup DOMAIN u |-> IF k \in DOMAIN u THEN u[k] ELSE e[k]]
\* e with key k undefined
Without(e, k) == [j \in DOMAIN e \ {k} |-> e[j]]

Abs(n) == IF n < 0 THEN -n ELSE n
Min(a, b) == IF a <= b THEN a ELSE b
Max(a, b) == IF a >= b THEN a ELSE b
Sign(n) == IF n > 0 THEN 1 ELSE IF n < 0 THEN -1 ELSE 0

\* Math.sqrt on the perfect squares the model keeps to (0 stands in elsewhere:
\* a state holding such a value is outside the model and is never committed)
IsSquare(n) == \E r \in 0..n : r * r = n
Sqrt(n) == IF IsSquare(n) THEN CHOOSE r \in 0..n : r * r = n ELSE 0

SeqToSet(s) == {s[i] : i \in DOMAIN s}
Includes(s, v) == \E i \in DOMAIN s : s[i] = v

(* Rationals <<num, den>> with den > 0 *)
RatLt(p, q) == p[1] * q[2] < q[1] * p[2]
RatLe(p, q) == p[1] * q[2] <= q[1] * p[2]
RatEq(p, q) == p[1] * q[2] = q[1] * p[2]

(* Numbers a + b*sqrt(3) as <<a, b>> *)
R3(n) == <<n, 0>>
R3Add(u, v) == <<u[1] + v[1], u[2] + v[2]>>
R3Sub(u, v) == <<u[1] - v[1], u[2] - v[2]>>
R3Scale(k, u) == <<k * u[1], k * u[2]>>
R3Mul(u, v) == <<u[1] * v[1] + 3 * u[2] * v[2], u[1] * v[2] + u[2] * v[1]>>
\* the sign of a - b*sqrt(3) for a, b >= 0; beyond the squares that fit the
\* machine integers, a - b*sqrt(3) = -(3b - a - (a - b)*sqrt(3)) / (1 + sqrt(3))
RECURSIVE Root3Cmp(_, _)
Root3Cmp(a, b) ==
    IF b = 0 THEN Sign(a)
    ELSE IF a >= 2 * b THEN 1
    ELSE IF 3 * a <= 5 * b THEN -1
    ELSE IF a <= 40000 THEN Sign(a * a - 3 * b * b)
    ELSE -Root3Cmp(3 * b - a, a - b)
R3Sign(u) ==
    IF u[1] >= 0 /\ u[2] >= 0 THEN (IF u[1] = 0 /\ u[2] = 0 THEN 0 ELSE 1)
    ELSE IF u[1] <= 0 /\ u[2] <= 0 THEN -1
    ELSE IF u[1] > 0 THEN Root3Cmp(u[1], -u[2])
    ELSE -Root3Cmp(-u[1], u[2])
R3Lt(u, v) == R3Sign(R3Sub(u, v)) < 0
R3Le(u, v) == R3Sign(R3Sub(u, v)) <= 0
R3Abs(u) == IF R3Sign(u) < 0 THEN R3Scale(-1, u) ELSE u
R3Min(u, v) == IF R3Le(u, v) THEN u ELSE v
R3Max(u, v) == IF R3Le(v, u) THEN u ELSE v

(* Angles in quarter turns *)
Cos(q) == CASE q % 4 = 0 -> 1 [] q % 4 = 1 -> 0 [] q % 4 = 2 -> -1 [] q % 4 = 3 -> 0
Sin(q) == CASE q % 4 = 0 -> 0 [] q % 4 = 1 -> 1 [] q % 4 = 2 -> 0 [] q % 4 = 3 -> -1
\* a direction the quarter-turn angles can express: along an axis (or null)
Axial(dySign, dxSign) == dySign = 0 \/ dxSign = 0
\* Math.atan2(dy, dx) of an axial direction, given by the signs of dy and dx
Atan2(dySign, dxSign) ==
    CASE dySign = 0 /\ dxSign >= 0 -> 0
      [] dySign = 0 /\ dxSign < 0 -> 2
      [] dySign > 0 /\ dxSign = 0 -> 1
      [] dySign < 0 /\ dxSign = 0 -> -1

-----------------------------------------------------------------------------
(* ViewportTransform *)

ScaleN == viewTransform.scaleN
ScaleD == viewTransform.scaleD

\* a length t/scale, squared, as a rational
ScaledSq(t) == <<t * t * ScaleD * ScaleD, ScaleN * ScaleN>>

\* (screen - offset) / scale; the canvas sits at the window origin.  The model's
\* screen points are chosen so that the division is exact.
screenToCanvas(screenX, screenY) ==
    [x |-> ((screenX - viewTransform.offsetX) * ScaleD) \div ScaleN,
     y |-> ((screenY - viewTransform.offsetY) * ScaleD) \div ScaleN]

\* pixels / pixelsPerCm
calculateDistance(x1, y1, x2, y2) ==
    <<Sqrt((x2 - x1) * (x2 - x1) + (y2 - y1) * (y2 - y1)), project.pixelsPerCm>>

-----------------------------------------------------------------------------
(* ShapeGeometry *)

NoElement == [id |-> NoId, type |-> "none"]

Rotation(element) == Get(element, "rotation", 0)
Locked(element) == Get(element, "locked", FALSE)

\* The unit of getElementBounds and of the handle positions: every value they
\* return is the true value times Unit, as a number a + b*sqrt(3).
Unit == 20 * ScaleN

getElementBounds(element) ==
    CASE element.type = "line" ->
           LET minX == Min(element.x, element.endX)
               minY == Min(element.y, element.endY)
               maxX == Max(element.x, element.endX)
               maxY == Max(element.y, element.endY)
           IN [x |-> R3(Unit * minX), y |-> R3(Unit * minY),
               width |-> R3(Unit * (maxX - minX)), height |-> R3(Unit * (maxY - minY)),
               centerX |-> R3((Unit \div 2) * (element.x + element.endX)),
               centerY |-> R3((Unit \div 2) * (element.y + element.endY))]
      [] element.type = "rectangle" ->
           [x |-> R3(Unit * element.x), y |-> R3(Unit * element.y),
            width |-> R3(Unit * element.width), height |-> R3(Unit * element.height),
            centerX |-> R3(Unit * element.x + (Unit \div 2) * element.width),
            centerY |-> R3(Unit * element.y + (Unit \div 2) * element.height)]
      [] element.type = "text" ->
           \* scaledFontSize = fontSize / scale; estimatedWidth = length * scaledFontSize * 0.6
           LET scaledFontSize == 20 * element.fontSize * ScaleD
               estimatedWidth == 12 * Len(element.content) * element.fontSize * ScaleD
           IN [x |-> R3(Unit * element.x), y |-> R3(Unit * element.y - scaledFontSize),
               width |-> R3(estimatedWidth), height |-> R3(scaledFontSize),
               centerX |-> R3(Unit * element.x + estimatedWidth \div 2),
               centerY |-> R3(Unit * element.y - scaledFontSize \div 2)]
      [] element.type = "door" ->
           LET cos == Cos(Rotation(element))
               sin == Sin(Rotation(element))
               \* doorAngle = pi/6: doorEndX = width*sqrt(3)/2, doorEndY = width/2
               point2X == R3(Unit * element.width)
               point3X == <<Unit * element.width, (Unit \div 2) * element.width>>
               point3Y == R3((Unit \div 2) * element.width)
               worldPoint1X == R3(Unit * element.x)
               worldPoint1Y == R3(Unit * element.y)
               worldPoint2X == R3Add(R3(Unit * element.x), R3Scale(cos, point2X))
               worldPoint2Y == R3Add(R3(Unit * element.y), R3Scale(sin, point2X))
               worldPoint3X == R3Add(R3(Unit * element.x),
                                     R3Sub(R3Scale(cos, point3X), R3Scale(sin, point3Y)))
               worldPoint3Y == R3Add(R3(Unit * element.y),
                                     R3Add(R3Scale(sin, point3X), R3Scale(cos, point3Y)))
               minX == R3Min(worldPoint1X, R3Min(worldPoint2X, worldPoint3X))
               maxX == R3Max(worldPoint1X, R3Max(worldPoint2X, worldPoint3X))
               minY == R3Min(worldPoint1Y, R3Min(worldPoint2Y, worldPoint3Y))
               maxY == R3Max(worldPoint1Y, R3Max(worldPoint2Y, worldPoint3Y))
               half(u) == <<u[1] \div 2, u[2] \div 2>>
           IN [x |-> minX, y |-> minY,
               width |-> R3Sub(maxX, minX), height |-> R3Sub(maxY, minY),
               centerX |-> half(R3Add(minX, maxX)),
               centerY |-> half(R3Add(minY, maxY))]
      [] element.type = "circle" ->
           [x |-> R3(Unit * (element.x - element.radius)),
            y |-> R3(Unit * (element.y - element.radius)),
            width |-> R3(Unit * element.radius * 2), height |-> R3(Unit * element.radius * 2),
            centerX |-> R3(Unit * element.x), centerY |-> R3(Unit * element.y)]
      [] OTHER ->
           [x |-> R3(0), y |-> R3(0), width |-> R3(0), height |-> R3(0),
            centerX |-> R3(0), centerY |-> R3(0)]

\* |point - handle| < 8/scale on both axes (handle position in Unit)
checkHandleHit(point, handleX, handleY) ==
    LET handleSize == R3(20 * HandleSize * ScaleD)
    IN /\ R3Lt(R3Abs(R3Sub(R3(Unit * point.x), handleX)), handleSize)
       /\ R3Lt(R3Abs(R3Sub(R3(Unit * point.y), handleY)), handleSize)

\* rotatePoint of getScaleHandle: (px, py) turned by angle about (cx, cy)
rotatePoint(px, py, cx, cy, angle) ==
    LET dx == R3Sub(px, cx)
        dy == R3Sub(py, cy)
    IN [x |-> R3Add(cx, R3Sub(R3Scale(Cos(angle), dx), R3Scale(Sin(angle), dy))),
        y |-> R3Add(cy, R3Add(R3Scale(Sin(angle), dx), R3Scale(Cos(angle), dy)))]

ScaleHandles(b) ==
    LET halfW == <<b.width[1] \div 2, b.width[2] \div 2>>
        halfH == <<b.height[1] \div 2, b.height[2] \div 2>>
    IN << [x |-> b.x, y |-> b.y, type |-> "nw"],
          [x |-> R3Add(b.x, b.width), y |-> b.y, type |-> "ne"],
          [x |-> b.x, y |-> R3Add(b.y, b.height), type |-> "sw"],
          [x |-> R3Add(b.x, b.width), y |-> R3Add(b.y, b.height), type |-> "se"],
          [x |-> R3Add(b.x, halfW), y |-> b.y, type |-> "n"],
          [x |-> R3Add(b.x, halfW), y |-> R3Add(b.y, b.height), type |-> "s"],
          [x |-> b.x, y |-> R3Add(b.y, halfH), type |-> "w"],
          [x |-> R3Add(b.x, b.width), y |-> R3Add(b.y, halfH), type |-> "e"] >>

\* the first handle hit, or "" (null)
getScaleHandle(point, element) ==
    IF element.type = "line" \/ element.type = "door" THEN ""
    ELSE LET bounds == getElementBounds(element)
             handles == ScaleHandles(bounds)
             hit(i) == LET rotated == rotatePoint(handles[i].x, handles[i].y,
                                                  bounds.centerX, bounds.centerY,
                                                  Rotation(element))
                       IN checkHandleHit(point, rotated.x, rotated.y)
         IN IF \E i \in DOMAIN handles : hit(i)
            THEN handles[CHOOSE i \in DOMAIN handles :
                            hit(i) /\ \A j \in 1..(i - 1) : ~hit(j)].type
            ELSE ""

\* the position of the rotation handle (in Unit)
RotationHandlePos(element) ==
    LET bounds == getElementBounds(element)
        rotateHandleY == R3Sub(bounds.y, R3(20 * RotateHandleOffset * ScaleD))
        dy == R3Sub(rotateHandleY, bounds.centerY)
    IN [x |-> R3Sub(bounds.centerX, R3Scale(Sin(Rotation(element)), dy)),
        y |-> R3Add(bounds.centerY, R3Scale(Cos(Rotation(element)), dy))]

getRotationHandle(point, element) ==
    LET pos == RotationHandlePos(element)
    IN checkHandleHit(point, pos.x, pos.y)

\* The direction of point seen from the centre of the element's bounds, as the
\* signs of (dy, dx): the arguments of Math.atan2 in the rotate gesture.
AngleArgs(point, element) ==
    LET bounds == getElementBounds(element)
    IN [dy |-> R3Sign(R3Sub(R3(Unit * point.y), bounds.centerY)),
        dx |-> R3Sign(R3Sub(R3(Unit * point.x), bounds.centerX))]

\* The square of the distance from (px, py) to the segment (x1,y1)-(x2,y2), as a
\* rational: the closest point is x1 + param*C with param = dot/lenSq clamped to
\* [0, 1], param = -1 for a zero-length segment.
pointToLineDistance(px, py, x1, y1, x2, y2) ==
    LET A == px - x1
        B == py - y1
        C == x2 - x1
        D == y2 - y1
        dot == A * C + B * D
        lenSq == C * C + D * D
    IN IF lenSq = 0 \/ dot < 0 THEN <<A * A + B * B, 1>>
       ELSE IF dot > lenSq THEN <<(px - x2) * (px - x2) + (py - y2) * (py - y2), 1>>
       \* the foot of the perpendicular: |A*D - B*C|^2 / lenSq, which is A^2 when
       \* the segment is vertical and B^2 when it is horizontal
       ELSE IF C = 0 THEN <<A * A, 1>>
       ELSE IF D = 0 THEN <<B * B, 1>>
       ELSE <<(A * D - B * C) * (A * D - B * C), lenSq>>

-----------------------------------------------------------------------------
(* HitTester *)

\* line: dist < 10/scale
LineHit(x, y, element) ==
    RatLt(pointToLineDistance(x, y, element.x, element.y, element.endX, element.endY),
          ScaledSq(HitTolerance))

\* rectangle: the point, turned by -rotation about the centre, lies in the box
\* (coordinates doubled, the centre being x + width/2)
RectangleHit(x, y, element) ==
    LET cos == Cos(-Rotation(element))
        sin == Sin(-Rotation(element))
        dx == 2 * x - (2 * element.x + element.width)
        dy == 2 * y - (2 * element.y + element.height)
        localX == dx * cos - dy * sin
        localY == dx * sin + dy * cos
    IN /\ localX >= -element.width
       /\ localX <= element.width
       /\ localY >= -element.height
       /\ localY <= element.height

\* text: local frame anchored at the baseline; width length*fontSize/scale*0.6
TextHit(x, y, element) ==
    LET cos == Cos(-Rotation(element))
        sin == Sin(-Rotation(element))
        dx == x - element.x
        dy == y - element.y
        localX == dx * cos - dy * sin
        localY == dx * sin + dy * cos
    IN /\ localX >= 0
       /\ 5 * ScaleN * localX <= 3 * Len(element.content) * element.fontSize * ScaleD
       /\ ScaleN * localY >= -(element.fontSize * ScaleD)
       /\ localY <= 0

\* a variant of the door test that treats the leaf as a Line: within 10/scale of
\* the segment from the hinge to the latch end
DoorHitAsLine(x, y, element) ==
    RatLt(pointToLineDistance(x, y, element.x, element.y,
                              element.x + element.width * Cos(Rotation(element)),
                              element.y + element.width * Sin(Rotation(element))),
          ScaledSq(HitTolerance))

\* door: within 5/scale of the leaf (local x axis, 0..width), or within 5/scale of
\* the segment from (width, 0) to (width + width*cos 30, width*sin 30)
DoorHit(x, y, element) ==
    LET cos == Cos(Rotation(element))
        sin == Sin(Rotation(element))
        dx == x - element.x
        dy == y - element.y
        localX == dx * cos + dy * sin
        localY == (-dx) * sin + dy * cos
        w == element.width
        mainLineHit == /\ Abs(localY) * ScaleN <= DoorHitTolerance * ScaleD
                       /\ localX >= 0
                       /\ localX <= w
        \* pointToLineDistance(localX, localY, w, 0, w + w*sqrt(3)/2, w/2):
        \* A = localX - w, B = localY, 2*dot = w*(A*sqrt(3) + B), lenSq = w*w
        A == localX - w
        B == localY
        \* the signs of dot and of dot - lenSq, the factor w/2 taken out
        dotSign == Sign(w) * R3Sign(<<B, A>>)
        pastEnd == Sign(w) * R3Sign(<<B - 2 * w, A>>)
        tolSq(k) == R3(k * DoorHitTolerance * DoorHitTolerance * ScaleD * ScaleD)
        distSq ==
            IF w = 0 \/ dotSign < 0
            THEN [v |-> R3(A * A + B * B), k |-> 1]
            ELSE IF pastEnd > 0
            THEN [v |-> <<A * A + B * B + w * w - w * B, -(w * A)>>, k |-> 1]
            ELSE [v |-> <<A * A + 3 * B * B, -(2 * A * B)>>, k |-> 4]
        doorLineHit == R3Le(R3Scale(ScaleN * ScaleN, distSq.v), tolSq(distSq.k))
    IN mainLineHit \/ doorLineHit

\* circle: distance to the centre <= radius
CircleHit(x, y, element) ==
    LET dx == x - element.x
        dy == y - element.y
    IN element.radius >= 0 /\ dx * dx + dy * dy <= element.radius * element.radius

isMatch(x, y, element) ==
    CASE element.type = "line" -> LineHit(x, y, element)
      [] element.type = "rectangle" -> RectangleHit(x, y, element)
      [] element.type = "text" -> TextHit(x, y, element)
      [] element.type = "door" -> DoorHit(x, y, element)
      [] element.type = "circle" -> CircleHit(x, y, element)
      [] OTHER -> FALSE

\* a variant of the loop that returns the topmost match, locked or not
FindTopmostMatch(i, x, y, lockedMatch) ==
    LET matches == {k \in 1..i : isMatch(x, y, project.elements[k])}
    IN IF matches = {} THEN lockedMatch
       ELSE project.elements[CHOOSE k \in matches : \A j \in matches : j <= k]

\* the loop of findElementAt from index i down to 1, lockedMatch so far
RECURSIVE FindElementFrom(_, _, _, _)
FindElementFrom(i, x, y, lockedMatch) ==
    IF i < 1 THEN lockedMatch
    ELSE LET element == project.elements[i]
         IN IF isMatch(x, y, element)
            THEN IF ~Locked(element) THEN element
                 ELSE IF lockedMatch = NoElement
                      THEN FindElementFrom(i - 1, x, y, element)
                      ELSE FindElementFrom(i - 1, x, y, lockedMatch)
            ELSE FindElementFrom(i - 1, x, y, lockedMatch)

findElementAt(x, y) == FindElementFrom(Len(project.elements), x, y, NoElement)

-----------------------------------------------------------------------------
(* SnapEngine *)

Infinity == <<1, 0>>

\* a variant of getClosestPointOnLine that projects onto the whole line
getClosestPointUnclamped(px, py, x1, y1, x2, y2) ==
    LET C == x2 - x1
        D == y2 - y1
        dot == (px - x1) * C + (py - y1) * D
        lenSq == C * C + D * D
    IN IF lenSq = 0 THEN [x |-> x1, y |-> y1]
       ELSE [x |-> x1 + (dot * C) \div lenSq, y |-> y1 + (dot * D) \div lenSq]

\* getClosestPointOnLine; the segments of the model are axis-parallel, which
\* makes x1 + param*C an integer
getClosestPointOnLine(px, py, x1, y1, x2, y2) ==
    LET A == px - x1
        B == py - y1
        C == x2 - x1
        D == y2 - y1
        dot == A * C + B * D
        lenSq == C * C + D * D
    IN IF lenSq = 0 \/ dot < 0 THEN [x |-> x1, y |-> y1]
       ELSE IF dot > lenSq THEN [x |-> x2, y |-> y2]
       ELSE [x |-> x1 + (dot * C) \div lenSq, y |-> y1 + (dot * D) \div lenSq]

\* the four sides of a rectangle, in the order the code scans them
RectangleSides(element) ==
    << [x |-> element.x, y |-> element.y,
        endX |-> element.x + element.width, endY |-> element.y, side |-> "top"],
       [x |-> element.x, y |-> element.y + element.height,
        endX |-> element.x + element.width, endY |-> element.y + element.height,
        side |-> "bottom"],
       [x |-> element.x, y |-> element.y,
        endX |-> element.x, endY |-> element.y + element.height, side |-> "left"],
       [x |-> element.x + element.width, y |-> element.y,
        endX |-> element.x + element.width, endY |-> element.y + element.height,
        side |-> "right"] >>

\* a variant of the candidate test that lets a candidate at the same distance
\* replace the current best
SnapCandidateOrEqual(point, seg, ref, nearest) ==
    LET dist == pointToLineDistance(point.x, point.y, seg.x, seg.y, seg.endX, seg.endY)
    IN IF RatLt(dist, ScaledSq(SnapThreshold)) /\ RatLe(dist, nearest.distance)
       THEN LET closestPoint == getClosestPointOnLine(point.x, point.y,
                                                      seg.x, seg.y, seg.endX, seg.endY)
            IN Merge([x |-> closestPoint.x, y |-> closestPoint.y,
                      rotation |-> Atan2(Sign(seg.endY - seg.y), Sign(seg.endX - seg.x)),
                      distance |-> dist], ref)
       ELSE nearest

\* one candidate segment seg with attachment reference ref: replaces nearest
\* when dist < snapDistance and dist < nearestDist
SnapCandidate(point, seg, ref, nearest) ==
    LET dist == pointToLineDistance(point.x, point.y, seg.x, seg.y, seg.endX, seg.endY)
    IN IF RatLt(dist, ScaledSq(SnapThreshold)) /\ RatLt(dist, nearest.distance)
       THEN LET closestPoint == getClosestPointOnLine(point.x, point.y,
                                                      seg.x, seg.y, seg.endX, seg.endY)
            IN Merge([x |-> closestPoint.x, y |-> closestPoint.y,
                      rotation |-> Atan2(Sign(seg.endY - seg.y), Sign(seg.endX - seg.x)),
                      distance |-> dist], ref)
       ELSE nearest

RECURSIVE SnapSides(_, _, _, _)
SnapSides(point, element, k, nearest) ==
    IF k > 4 THEN nearest
    ELSE LET side == RectangleSides(element)[k]
         IN SnapSides(point, element, k + 1,
                      SnapCandidate(point, side,
                                    [attachedToRectangle |-> element.id,
                                     attachmentSide |-> side.side], nearest))

RECURSIVE SnapFrom(_, _, _)
SnapFrom(point, i, nearest) ==
    IF i > Len(project.elements) THEN nearest
    ELSE LET element == project.elements[i]
         IN SnapFrom(point, i + 1,
                CASE element.type = "line" ->
                       SnapCandidate(point, element, [attachedToLine |-> element.id], nearest)
                  [] element.type = "rectangle" -> SnapSides(point, element, 1, nearest)
                  [] OTHER -> nearest)

\* distance is the square of the distance (Infinity when nothing is in reach)
findNearestLineOrWall(point) ==
    SnapFrom(point, 1, [x |-> point.x, y |-> point.y, rotation |-> 0, distance |-> Infinity])

-----------------------------------------------------------------------------
(* App: element and history callbacks.  Each returns the state updates it     *)
(* queues, as a record from variable name to new value.                       *)

NoUpdate == <<>>
\* the result of a handler on an input outside the model's numbers (an angle that
\* is no quarter turn, a length that is no integer): the action is disabled there
Inexact == [inexact |-> TRUE]

\* project.elements.find(el => el.id === id)
FindById(id) ==
    LET els == project.elements
    IN IF \E i \in DOMAIN els : els[i].id = id
       THEN els[CHOOSE i \in DOMAIN els : els[i].id = id /\ \A j \in 1..(i - 1) : els[j].id # id]
       ELSE NoElement

\* history.slice(0, historyIndex + 1)
HistorySlice(h, idx) == SubSeq(h, 1, Min(idx + 1, Len(h)))

\* saveHistory(newProjects): push the projects of the last render, show newProjects
saveHistory(newProject) ==
    LET newHistory == Append(HistorySlice(history, historyIndex), project)
    IN [history |-> newHistory, historyIndex |-> Len(newHistory) - 1, project |-> newProject]

\* a variant of saveCurrentStateToHistory that records nothing
saveNoCheckpoint == NoUpdate

\* saveCurrentStateToHistory()
saveCurrentStateToHistory ==
    LET newHistory == Append(HistorySlice(history, historyIndex), project)
    IN [history |-> newHistory, historyIndex |-> Len(newHistory) - 1]

addElement(element) ==
    saveHistory([project EXCEPT !.elements = Append(@, element)])

addMultipleElements(newElements) ==
    saveHistory([project EXCEPT !.elements = @ \o newElements])

\* a variant of the derived fields that keeps the cached centimetre values
RecomputeCmStale(updated, pixelsPerCm) == updated

\* the derived centimetre fields of updateElement / updateMultipleElements
RecomputeCm(updated, pixelsPerCm) ==
    CASE updated.type = "line" /\ Has(updated, "endX") /\ Has(updated, "endY") ->
           LET dx == updated.endX - updated.x
               dy == updated.endY - updated.y
           IN Merge(updated, [lengthCm |-> <<Sqrt(dx * dx + dy * dy), pixelsPerCm>>])
      [] updated.type = "rectangle" /\ Has(updated, "width") /\ Has(updated, "height") ->
           Merge(updated, [widthCm |-> <<updated.width, pixelsPerCm>>,
                           heightCm |-> <<updated.height, pixelsPerCm>>])
      [] updated.type = "circle" /\ Has(updated, "radius") ->
           Merge(updated, [radiusCm |-> <<updated.radius, pixelsPerCm>>])
      [] OTHER -> updated

\* { ...e, ...updates } where updates sets the keys of undef to undefined
Spread(e, updates, undef) ==
    LET merged == Merge(e, updates)
    IN [k \in DOMAIN merged \ undef |-> merged[k]]

\* updateFn of updateElement: p with the element elementId updated
updateFn(p, elementId, updates, undef) ==
    [p EXCEPT !.elements =
        [i \in DOMAIN @ |->
            IF @[i].id # elementId THEN @[i]
            ELSE RecomputeCm(Spread(@[i], updates, undef), p.pixelsPerCm)]]

\* updateMultipleElements' map: p with every element of elementIds updated
updateManyFn(p, elementIds, updates) ==
    [p EXCEPT !.elements =
        [i \in DOMAIN @ |->
            IF ~Includes(elementIds, @[i].id) THEN @[i]
            ELSE RecomputeCm(Merge(@[i], updates), p.pixelsPerCm)]]

\* One queued updateElement(id, updates) with history: on the state q =
\* [project, history, historyIndex] the queue has produced so far, the updater
\* pushes q.project onto history cut at the handler's historyIndex + 1 and
\* increments the index.
updateElementWithHistory(q, elementId, updates) ==
    [project |-> updateFn(q.project, elementId, updates, {}),
     history |-> Append(HistorySlice(q.history, historyIndex), q.project),
     historyIndex |-> q.historyIndex + 1]

updateMultipleElements(elementIds, updates) ==
    [project |-> updateManyFn(project, elementIds, updates),
     history |-> Append(HistorySlice(history, historyIndex), project),
     historyIndex |-> historyIndex + 1]

deleteElement(elementId) ==
    Merge(saveHistory([project EXCEPT !.elements =
                          SelectSeq(@, LAMBDA e : e.id # elementId)]),
          [selectedElementIds |-> <<>>])

deleteMultipleElements(elementIds) ==
    Merge(saveHistory([project EXCEPT !.elements =
                          SelectSeq(@, LAMBDA e : ~Includes(elementIds, e.id))]),
          [selectedElementIds |-> <<>>])

-----------------------------------------------------------------------------
(* ManipulationController: handleMouseDown *)

IsSelect == tool = "select"

\* the single selected element when it is unlocked (the target of the handles)
HandleTarget ==
    IF IsSelect /\ Len(selectedElementIds) = 1
    THEN LET selectedElement == FindById(selectedElementIds[1])
         IN IF selectedElement # NoElement /\ ~Locked(selectedElement)
            THEN selectedElement ELSE NoElement
    ELSE NoElement

\* a variant of the rotation-handle guard that yields to the hit test
OnRotationHandleUnlessHit(point) ==
    /\ HandleTarget # NoElement /\ getRotationHandle(point, HandleTarget)
    /\ findElementAt(point.x, point.y) = NoElement

OnRotationHandle(point) ==
    HandleTarget # NoElement /\ getRotationHandle(point, HandleTarget)

OnScaleHandle(point) ==
    HandleTarget # NoElement /\ getScaleHandle(point, HandleTarget) # ""

IsPanButton(e) == e.button = 1 \/ e.button = 2 \/ (e.button = 0 /\ e.altKey)

\* a plain click always replaces the selection
ClickSelectionReplace(e, clickedElement) ==
    IF e.shiftKey
    THEN IF Includes(selectedElementIds, clickedElement.id)
         THEN [selectedElementIds |->
                  SelectSeq(selectedElementIds, LAMBDA id : id # clickedElement.id)]
         ELSE [selectedElementIds |-> Append(selectedElementIds, clickedElement.id)]
    ELSE [selectedElementIds |-> <<clickedElement.id>>]

\* the selection change of a click on clickedElement
ClickSelection(e, clickedElement) ==
    IF e.shiftKey
    THEN IF Includes(selectedElementIds, clickedElement.id)
         THEN [selectedElementIds |->
                  SelectSeq(selectedElementIds, LAMBDA id : id # clickedElement.id)]
         ELSE [selectedElementIds |-> Append(selectedElementIds, clickedElement.id)]
    ELSE IF ~Includes(selectedElementIds, clickedElement.id)
         THEN [selectedElementIds |-> <<clickedElement.id>>]
         ELSE NoUpdate

\* the start positions captured for the ids of ids: the unlocked elements found
StartPositions(ids) ==
    [id \in {i \in SeqToSet(ids) : FindById(i) # NoElement /\ ~Locked(FindById(i))} |->
        LET element == FindById(id)
        IN IF element.type = "line"
           THEN [x |-> element.x, y |-> element.y, endX |-> element.endX, endY |-> element.endY]
           ELSE [x |-> element.x, y |-> element.y]]

\* the positions map is built from selectedElementIds as the handler sees it
DragStart(point, clickedElement) ==
    IF Locked(clickedElement) THEN NoUpdate
    ELSE Merge([isDragging |-> TRUE,
                dragReferenceId |-> clickedElement.id,
                dragStart |-> point,
                elementStartPositions |-> StartPositions(selectedElementIds)],
               IF clickedElement.type = "door"
               THEN [doorOriginalRotation |->
                        IF Has(clickedElement, "rotation")
                        THEN Some(clickedElement.rotation) ELSE None]
               ELSE NoUpdate)

TextElement(point) ==
    [id |-> nextId, type |-> "text", x |-> point.x, y |-> point.y,
     content |-> <<"T", "e", "x", "t">>, fontSize |-> DefaultFontSize]

\* the optional attachment keys of a snap result
Attachment(snap) ==
    [k \in DOMAIN snap \cap {"attachedToLine", "attachedToRectangle", "attachmentSide"} |->
        snap[k]]

DoorElement(point) ==
    LET snappedPosition == findNearestLineOrWall(point)
    IN Merge([id |-> nextId, type |-> "door",
              x |-> snappedPosition.x, y |-> snappedPosition.y,
              width |-> DoorWidthCm * project.pixelsPerCm,
              rotation |-> snappedPosition.rotation],
             Attachment(snappedPosition))

handleMouseDown(e) ==
    LET point == screenToCanvas(e.clientX, e.clientY)
    IN IF IsPanButton(e)
       THEN [isPanning |-> TRUE, panStart |-> [x |-> e.clientX, y |-> e.clientY]]
       ELSE IF OnRotationHandle(point)
       THEN LET a == AngleArgs(point, HandleTarget)
            IN IF ~Axial(a.dy, a.dx) THEN Inexact
               ELSE [isRotating |-> TRUE, rotationStart |-> Atan2(a.dy, a.dx)]
       ELSE IF OnScaleHandle(point)
       THEN [isScaling |-> TRUE,
             scaleHandle |-> getScaleHandle(point, HandleTarget),
             drawStart |-> point]
       ELSE IF IsSelect
       THEN LET clickedElement == findElementAt(point.x, point.y)
            IN IF clickedElement # NoElement
               THEN Merge(ClickSelection(e, clickedElement), DragStart(point, clickedElement))
               ELSE Merge(IF ~e.shiftKey THEN [selectedElementIds |-> <<>>] ELSE NoUpdate,
                          [drawStart |-> point, potentialSelection |-> TRUE])
       ELSE IF tool \in {"line", "rectangle", "circle"}
       THEN [isDrawing |-> TRUE, drawStart |-> point]
       ELSE IF tool = "text"
       THEN Merge(addElement(TextElement(point)), [tool |-> "select", nextId |-> nextId + 1])
       ELSE IF tool = "door"
       THEN Merge(addElement(DoorElement(point)), [tool |-> "select", nextId |-> nextId + 1])
       ELSE NoUpdate

-----------------------------------------------------------------------------
(* ManipulationController: handleMouseMove *)

\* scaleHandle.includes(c)
HandleIncludes(handle, c) ==
    CASE c = "n" -> handle \in {"n", "ne", "nw"}
      [] c = "s" -> handle \in {"s", "se", "sw"}
      [] c = "e" -> handle \in {"e", "ne", "se"}
      [] c = "w" -> handle \in {"w", "nw", "sw"}

PanMove(e) ==
    [viewTransform |-> [viewTransform EXCEPT
                           !.offsetX = @ + (e.clientX - panStart.x),
                           !.offsetY = @ + (e.clientY - panStart.y)],
     panStart |-> [x |-> e.clientX, y |-> e.clientY]]

\* a variant of the rotating move that keeps the angle of the press as
\* rotationStart
RotateMoveFromPress(point) ==
    LET selectedElement == FindById(selectedElementIds[1])
    IN IF selectedElement = NoElement THEN NoUpdate
       ELSE LET a == AngleArgs(point, selectedElement)
            IN IF ~Axial(a.dy, a.dx) THEN Inexact
               ELSE [project |-> updateFn(project, selectedElementIds[1],
                                          [rotation |-> Rotation(selectedElement)
                                                          + Atan2(a.dy, a.dx) - rotationStart],
                                          {})]

RotateMove(point) ==
    LET selectedElement == FindById(selectedElementIds[1])
    IN IF selectedElement = NoElement THEN NoUpdate
       ELSE LET a == AngleArgs(point, selectedElement)
            IN IF ~Axial(a.dy, a.dx) THEN Inexact
               ELSE LET currentAngle == Atan2(a.dy, a.dx)
                        rotationDelta == currentAngle - rotationStart
                        currentRotation == Rotation(selectedElement)
                    IN [project |-> updateFn(project, selectedElementIds[1],
                                             [rotation |-> currentRotation + rotationDelta], {}),
                        rotationStart |-> currentAngle]

\* a variant of the size guard that lets a result of exactly the floor through
ScaleAcceptedAtLeast(newWidth, newHeight) ==
    newWidth >= MinScaleSize /\ newHeight >= MinScaleSize

\* the size guard of a rectangle's scaling move
ScaleAccepted(newWidth, newHeight) ==
    newWidth > MinScaleSize /\ newHeight > MinScaleSize

ScaleMove(point) ==
    LET selectedElement == FindById(selectedElementIds[1])
        dx == point.x - drawStart.x
        dy == point.y - drawStart.y
    IN IF selectedElement # NoElement /\ selectedElement.type = "rectangle"
       THEN LET newX == IF HandleIncludes(scaleHandle, "w")
                        THEN selectedElement.x + dx ELSE selectedElement.x
                newWidth == IF HandleIncludes(scaleHandle, "e") THEN selectedElement.width + dx
                            ELSE IF HandleIncludes(scaleHandle, "w")
                                 THEN selectedElement.width - dx
                                 ELSE selectedElement.width
                newY == IF HandleIncludes(scaleHandle, "n")
                        THEN selectedElement.y + dy ELSE selectedElement.y
                newHeight == IF HandleIncludes(scaleHandle, "s") THEN selectedElement.height + dy
                             ELSE IF HandleIncludes(scaleHandle, "n")
                                  THEN selectedElement.height - dy
                                  ELSE selectedElement.height
            IN IF ScaleAccepted(newWidth, newHeight)
               THEN [project |-> updateFn(project, selectedElementIds[1],
                                          [x |-> newX, y |-> newY,
                                           width |-> newWidth, height |-> newHeight], {}),
                     drawStart |-> point]
               ELSE NoUpdate
       ELSE IF selectedElement # NoElement /\ selectedElement.type = "text"
       THEN IF scaleHandle \in {"e", "ne", "se"}
            THEN IF (dx + dy) % 2 # 0 THEN Inexact
                 ELSE [project |-> updateFn(project, selectedElementIds[1],
                                            [fontSize |-> Max(MinFontSize,
                                                              selectedElement.fontSize
                                                                + (dx + dy) \div 2)], {}),
                       drawStart |-> point]
            ELSE NoUpdate
       ELSE NoUpdate

\* the projection of point onto the segment (x1,y1)-(x2,y2), clamped to it, and
\* the segment's angle; the segment is axis-parallel, so the unit vector is exact
ProjectOnSegment(point, x1, y1, x2, y2) ==
    LET lineVecX == x2 - x1
        lineVecY == y2 - y1
        lineLength == Sqrt(lineVecX * lineVecX + lineVecY * lineVecY)
        lineUnitX == lineVecX \div lineLength
        lineUnitY == lineVecY \div lineLength
        toPointX == point.x - x1
        toPointY == point.y - y1
        projection == toPointX * lineUnitX + toPointY * lineUnitY
        clampedProjection == Max(0, Min(lineLength, projection))
    IN [x |-> x1 + clampedProjection * lineUnitX,
        y |-> y1 + clampedProjection * lineUnitY,
        rotation |-> Some(Atan2(Sign(lineVecY), Sign(lineVecX)))]

\* NaN, the coordinate a projection onto a segment of length 0 yields
\* (lineVecX / lineLength = 0 / 0); the model does no arithmetic on it
NaN == 999999

\* the pose of a door projected onto a segment of length 0: NaN, NaN and
\* Math.atan2(0, 0) = 0
ProjectOnPoint == [x |-> NaN, y |-> NaN, rotation |-> Some(0)]

\* project.elements.find(e => e.id === id && e.type === type)
FindTyped(id, type) ==
    LET found == FindById(id)
    IN IF found # NoElement /\ found.type = type THEN found ELSE NoElement

\* the pose keeps the rotation the door has now
keepRotation(pose) == pose

\* beyond the threshold: rotation = doorOriginalRotation
resetRotation(pose) == [pose EXCEPT !.rotation = doorOriginalRotation]

\* the pose [x, y, rotation] of the dragged reference door; rotation is None
\* when undefined
DoorDragPose(point, primaryElement, startPos, dx, dy) ==
    LET free == [x |-> startPos.x + dx, y |-> startPos.y + dy,
                 rotation |-> IF Has(primaryElement, "rotation")
                              THEN Some(primaryElement.rotation) ELSE None]
    IN IF Cardinality(DOMAIN elementStartPositions) # 1 THEN free
       ELSE IF Has(primaryElement, "attachedToLine")
       THEN LET attachedLine == FindTyped(primaryElement.attachedToLine, "line")
            IN IF attachedLine = NoElement THEN free
               ELSE IF attachedLine.x = attachedLine.endX /\ attachedLine.y = attachedLine.endY
                    THEN ProjectOnPoint
                    ELSE ProjectOnSegment(point, attachedLine.x, attachedLine.y,
                                          attachedLine.endX, attachedLine.endY)
       ELSE IF Has(primaryElement, "attachedToRectangle")
       THEN LET attachedRect == FindTyped(primaryElement.attachedToRectangle, "rectangle")
            IN IF attachedRect = NoElement \/ ~Has(primaryElement, "attachmentSide") THEN free
               ELSE LET sides == RectangleSides(attachedRect)
                        side == sides[CHOOSE k \in 1..4 :
                                         sides[k].side = primaryElement.attachmentSide]
                    IN IF side.x = side.endX /\ side.y = side.endY THEN ProjectOnPoint
                       ELSE ProjectOnSegment(point, side.x, side.y, side.endX, side.endY)
       ELSE LET snappedPosition == findNearestLineOrWall(point)
            IN IF RatLt(snappedPosition.distance, ScaledSq(SnapThreshold))
               THEN [x |-> snappedPosition.x, y |-> snappedPosition.y,
                     rotation |-> Some(snappedPosition.rotation)]
               ELSE resetRotation(free)

\* the element as one pointer-move of the drag leaves it
DragElement(point, element, startPos, dx, dy) ==
    IF element.type = "line" /\ Has(startPos, "endX") /\ Has(startPos, "endY")
    THEN RecomputeCm(Merge(element, [x |-> startPos.x + dx, y |-> startPos.y + dy,
                                     endX |-> startPos.endX + dx,
                                     endY |-> startPos.endY + dy]),
                     project.pixelsPerCm)
    ELSE IF element.type = "door" /\ element.id = dragReferenceId
    THEN LET pose == DoorDragPose(point, element, startPos, dx, dy)
         IN IF pose = Inexact THEN Inexact
            ELSE IF pose.rotation = None
                 THEN Spread(element, [x |-> pose.x, y |-> pose.y], {"rotation"})
                 ELSE Merge(element, [x |-> pose.x, y |-> pose.y,
                                      rotation |-> pose.rotation[1]])
    ELSE RecomputeCm(Merge(element, [x |-> startPos.x + dx, y |-> startPos.y + dy]),
                     project.pixelsPerCm)

\* every entry of elementStartPositions whose element exists and is unlocked is
\* updated (skipHistory); the updates are of different elements and commute
DragMove(point) ==
    LET dx == point.x - dragStart.x
        dy == point.y - dragStart.y
        moved(el) == /\ el.id \in DOMAIN elementStartPositions
                     /\ ~Locked(FindById(el.id))
        newElements == [i \in DOMAIN project.elements |->
                          LET el == project.elements[i]
                          IN IF moved(el)
                             THEN DragElement(point, el, elementStartPositions[el.id], dx, dy)
                             ELSE el]
    IN IF \E i \in DOMAIN newElements : newElements[i] = Inexact THEN Inexact
       ELSE [project |-> [project EXCEPT !.elements = newElements]]

SelectMove(point) ==
    LET ddx == point.x - drawStart.x
        ddy == point.y - drawStart.y
    IN Merge(IF potentialSelection
                /\ ddx * ddx + ddy * ddy > BoxSelectThreshold * BoxSelectThreshold
             THEN [potentialSelection |-> FALSE, isSelecting |-> TRUE]
             ELSE NoUpdate,
             IF isSelecting
             THEN [selectionBox |-> Some([x |-> Min(drawStart.x, point.x),
                                          y |-> Min(drawStart.y, point.y),
                                          width |-> Abs(ddx), height |-> Abs(ddy)])]
             ELSE NoUpdate)

\* A preview gets a fresh id on every move; only the last one can be committed,
\* so the model keeps the id of the preview it replaces.
PreviewId == IF tempElement = None THEN nextId ELSE tempElement[1].id

DrawMove(point) ==
    LET ids == [nextId |-> IF tempElement = None THEN nextId + 1 ELSE nextId]
    IN CASE tool = "line" ->
              IF point.x # drawStart.x /\ point.y # drawStart.y THEN Inexact
              ELSE Merge(ids,
                     [tempElement |-> Some(
                        [id |-> PreviewId, type |-> "line",
                         x |-> drawStart.x, y |-> drawStart.y,
                         endX |-> point.x, endY |-> point.y,
                         lengthCm |-> calculateDistance(drawStart.x, drawStart.y,
                                                        point.x, point.y)])])
         [] tool = "rectangle" ->
              LET width == Abs(point.x - drawStart.x)
                  height == Abs(point.y - drawStart.y)
              IN Merge(ids,
                   [tempElement |-> Some(
                      [id |-> PreviewId, type |-> "rectangle",
                       x |-> Min(drawStart.x, point.x), y |-> Min(drawStart.y, point.y),
                       width |-> width, height |-> height,
                       widthCm |-> <<width, project.pixelsPerCm>>,
                       heightCm |-> <<height, project.pixelsPerCm>>])])
         [] tool = "circle" ->
              LET dx == point.x - drawStart.x
                  dy == point.y - drawStart.y
              IN IF ~(\E r \in 0..(Abs(dx) + Abs(dy)) : r * r = dx * dx + dy * dy)
                 THEN Inexact
                 ELSE LET radius == Sqrt(dx * dx + dy * dy)
                      IN Merge(ids,
                           [tempElement |-> Some(
                              [id |-> PreviewId, type |-> "circle",
                               x |-> drawStart.x, y |-> drawStart.y,
                               radius |-> radius,
                               radiusCm |-> <<radius, project.pixelsPerCm>>])])
         [] OTHER -> NoUpdate

handleMouseMove(e) ==
    LET point == screenToCanvas(e.clientX, e.clientY)
    IN IF isPanning THEN PanMove(e)
       ELSE IF isRotating /\ Len(selectedElementIds) = 1 THEN RotateMove(point)
       ELSE IF isScaling /\ scaleHandle # "" /\ Len(selectedElementIds) = 1
       THEN ScaleMove(point)
       ELSE IF isDragging /\ Len(selectedElementIds) > 0 /\ dragReferenceId # NoId
       THEN DragMove(point)
       ELSE IF potentialSelection \/ isSelecting THEN SelectMove(point)
       ELSE IF isDrawing THEN DrawMove(point)
       ELSE NoUpdate

-----------------------------------------------------------------------------
(* ManipulationController: handleMouseUp *)

\* isPointInBox with the point and the box both times k (k > 0)
isPointInBox(x, y, box, k) ==
    /\ x >= k * box.x
    /\ x <= k * (box.x + box.width)
    /\ y >= k * box.y
    /\ y <= k * (box.y + box.height)

\* getRotatedCorners, every coordinate given times k: the corners of the box
\* (x, y, width, height) turned by rotation about (centerX, centerY)
getRotatedCorners(x, y, width, height, rotation, centerX, centerY) ==
    LET corners == << [x |-> x, y |-> y], [x |-> x + width, y |-> y],
                      [x |-> x, y |-> y + height], [x |-> x + width, y |-> y + height] >>
    IN [i \in 1..4 |->
          LET dx == corners[i].x - centerX
              dy == corners[i].y - centerY
          IN [x |-> centerX + dx * Cos(rotation) - dy * Sin(rotation),
              y |-> centerY + dx * Sin(rotation) + dy * Cos(rotation)]]

InSelectionBox(element, box) ==
    CASE element.type = "line" ->
           \/ isPointInBox(element.x, element.y, box, 1)
           \/ isPointInBox(element.endX, element.endY, box, 1)
      [] element.type = "rectangle" ->
           \* times 2: the centre is x + width/2
           LET corners == getRotatedCorners(2 * element.x, 2 * element.y,
                                            2 * element.width, 2 * element.height,
                                            Rotation(element),
                                            2 * element.x + element.width,
                                            2 * element.y + element.height)
           IN \E i \in 1..4 : isPointInBox(corners[i].x, corners[i].y, box, 2)
      [] element.type = "text" ->
           \* times 5*scaleN: scaledFontSize = fontSize/scale, width = length*that*0.6
           LET k == 5 * ScaleN
               scaledFontSize == 5 * element.fontSize * ScaleD
               estimatedWidth == 3 * Len(element.content) * element.fontSize * ScaleD
               corners == getRotatedCorners(k * element.x, k * element.y - scaledFontSize,
                                            estimatedWidth, scaledFontSize,
                                            Rotation(element), k * element.x, k * element.y)
           IN \E i \in 1..4 : isPointInBox(corners[i].x, corners[i].y, box, k)
      [] element.type = "circle" ->
           /\ element.x - element.radius < box.x + box.width
           /\ element.x + element.radius > box.x
           /\ element.y - element.radius < box.y + box.height
           /\ element.y + element.radius > box.y
      [] element.type = "door" ->
           LET point2X == element.x + element.width * Cos(Rotation(element))
               point2Y == element.y + element.width * Sin(Rotation(element))
           IN \/ isPointInBox(element.x, element.y, box, 1)
              \/ isPointInBox(point2X, point2Y, box, 1)
      [] OTHER -> FALSE

handleMouseUp ==
    IF isPanning THEN [isPanning |-> FALSE]
    ELSE IF isRotating THEN Merge([isRotating |-> FALSE], saveCurrentStateToHistory)
    ELSE IF isScaling
    THEN Merge([isScaling |-> FALSE, scaleHandle |-> ""], saveCurrentStateToHistory)
    ELSE IF isDragging
    THEN Merge([isDragging |-> FALSE, dragReferenceId |-> NoId,
                elementStartPositions |-> <<>>, doorOriginalRotation |-> None],
               saveCurrentStateToHistory)
    ELSE IF potentialSelection THEN [potentialSelection |-> FALSE]
    ELSE IF isSelecting /\ selectionBox # None
    THEN LET elementsInBox ==
                 SelectSeq(project.elements, LAMBDA el : InSelectionBox(el, selectionBox[1]))
         IN [selectedElementIds |-> [i \in DOMAIN elementsInBox |-> elementsInBox[i].id],
             isSelecting |-> FALSE, selectionBox |-> None]
    ELSE IF isDrawing /\ tempElement # None
    THEN Merge(addElement(tempElement[1]),
               [tempElement |-> None, isDrawing |-> FALSE, tool |-> "select"])
    ELSE NoUpdate

-----------------------------------------------------------------------------
(* ViewportTransform: handleWheel.  The scale is the rational scaleN/scaleD   *)
(* in lowest terms; a wheel event whose new offset is not a whole number of   *)
(* pixels is outside the numbers of the model.                                *)

RECURSIVE GCD(_, _)
GCD(a, b) == IF b = 0 THEN a ELSE GCD(b, a % b)

\* the rational r in lowest terms
Reduced(r) == <<r[1] \div GCD(r[1], r[2]), r[2] \div GCD(r[1], r[2])>>

\* the wheel factors and the limits of the scale
ZoomOutFactor == <<9, 10>>
ZoomInFactor == <<11, 10>>
MinViewScale == <<1, 10>>
MaxViewScale == <<5, 1>>

\* a variant of the clamp that lets every scale through
clampScaleNone(scale) == Reduced(scale)

\* Math.max(0.1, Math.min(5, scale))
clampScale(scale) ==
    IF RatLt(scale, MinViewScale) THEN MinViewScale
    ELSE IF RatLt(MaxViewScale, scale) THEN MaxViewScale
    ELSE Reduced(scale)

\* a variant of the new offset that keeps the old one
zoomOffsetKept(mouseC, offset, ratio) == <<offset, 1>>

\* mouse - (mouse - offset) * (newScale / scale), as a rational
zoomOffset(mouseC, offset, ratio) ==
    <<mouseC * ratio[2] - (mouseC - offset) * ratio[1], ratio[2]>>

handleWheel(e) ==
    LET delta == IF e.deltaY > 0 THEN ZoomOutFactor ELSE ZoomInFactor
        newScale == clampScale(<<ScaleN * delta[1], ScaleD * delta[2]>>)
        ratio == Reduced(<<newScale[1] * ScaleD, newScale[2] * ScaleN>>)
        newOffsetX == zoomOffset(e.clientX, viewTransform.offsetX, ratio)
        newOffsetY == zoomOffset(e.clientY, viewTransform.offsetY, ratio)
    IN IF \/ newScale[1] > MaxScaleTerm \/ newScale[2] > MaxScaleTerm
          \/ newOffsetX[1] % newOffsetX[2] # 0 \/ newOffsetY[1] % newOffsetY[2] # 0
       THEN Inexact
       ELSE LET newTransform == [scaleN |-> newScale[1], scaleD |-> newScale[2],
                                 offsetX |-> newOffsetX[1] \div newOffsetX[2],
                                 offsetY |-> newOffsetY[1] \div newOffsetY[2]]
            IN [viewTransform |-> newTransform,
                \* onUpdateProjectSettings({ viewTransform: newTransform })
                project |-> Merge(project, [viewTransform |-> newTransform])]

-----------------------------------------------------------------------------
(* The next render: every queued update applied *)

\* the states the bounds of the model admit
WithinBounds(p, h) ==
    /\ Len(p.elements) <= MaxElements
    /\ Len(h) <= MaxHistory
    /\ \A i \in DOMAIN p.elements :
          LET el == p.elements[i]
          IN /\ el.x = NaN \/ (Abs(el.x) <= MaxCoord /\ Abs(el.y) <= MaxCoord)
             /\ Abs(Rotation(el)) <= MaxTurns
             /\ Has(el, "endX") => (Abs(el.endX) <= MaxCoord /\ Abs(el.endY) <= MaxCoord)
             /\ el.type = "line" => (el.x = el.endX \/ el.y = el.endY)
             /\ el.type = "circle" => el.radius >= 0

\* A gesture's scratch value is read only while the gesture's flag is set, and
\* every entry to the gesture sets it (panStart under isPanning, rotationStart
\* under isRotating, dragStart under isDragging, drawStart under isScaling,
\* potentialSelection, isSelecting or isDrawing).  While the flag is off the
\* value the code leaves behind is dead, and the model keeps the initial value
\* in its place.
Scratch(live, value, initial) == IF live THEN value ELSE initial

Origin == [x |-> 0, y |-> 0]

\* no element has a NaN coordinate; the model follows a canvas no further once
\* one has
NoNaN == \A i \in DOMAIN project.elements : project.elements[i].x # NaN

Commit(updates) ==
    /\ NoNaN
    /\ \E u \in {updates} :
        /\ ~Has(u, "inexact")
        /\ WithinBounds(Get(u, "project", project), Get(u, "history", history))
        /\ Abs(Get(u, "viewTransform", viewTransform).offsetX) <= MaxOffset
        /\ Abs(Get(u, "viewTransform", viewTransform).offsetY) <= MaxOffset
        /\ project' = Get(u, "project", project)
        /\ selectedElementIds' = Get(u, "selectedElementIds", selectedElementIds)
        /\ tool' = Get(u, "tool", tool)
        /\ history' = Get(u, "history", history)
        /\ historyIndex' = Get(u, "historyIndex", historyIndex)
        /\ viewTransform' = Get(u, "viewTransform", viewTransform)
        /\ isPanning' = Get(u, "isPanning", isPanning)
        /\ panStart' = Scratch(Get(u, "isPanning", isPanning),
                                Get(u, "panStart", panStart), Origin)
        /\ isDrawing' = Get(u, "isDrawing", isDrawing)
        /\ drawStart' = Scratch(\/ Get(u, "isScaling", isScaling)
                                 \/ Get(u, "potentialSelection", potentialSelection)
                                 \/ Get(u, "isSelecting", isSelecting)
                                 \/ Get(u, "isDrawing", isDrawing),
                                 Get(u, "drawStart", drawStart), Origin)
        /\ tempElement' = Get(u, "tempElement", tempElement)
        /\ isDragging' = Get(u, "isDragging", isDragging)
        /\ dragStart' = Scratch(Get(u, "isDragging", isDragging),
                                 Get(u, "dragStart", dragStart), Origin)
        /\ dragReferenceId' = Get(u, "dragReferenceId", dragReferenceId)
        /\ elementStartPositions' = Get(u, "elementStartPositions", elementStartPositions)
        /\ doorOriginalRotation' = Get(u, "doorOriginalRotation", doorOriginalRotation)
        /\ copiedElements' = Get(u, "copiedElements", copiedElements)
        /\ isSelecting' = Get(u, "isSelecting", isSelecting)
        /\ selectionBox' = Get(u, "selectionBox", selectionBox)
        /\ potentialSelection' = Get(u, "potentialSelection", potentialSelection)
        /\ isRotating' = Get(u, "isRotating", isRotating)
        /\ rotationStart' = Scratch(Get(u, "isRotating", isRotating),
                                     Get(u, "rotationStart", rotationStart), 0)
        /\ isScaling' = Get(u, "isScaling", isScaling)
        /\ scaleHandle' = Get(u, "scaleHandle", scaleHandle)
        /\ showSettings' = Get(u, "showSettings", showSettings)
        /\ nextId' = Get(u, "nextId", nextId)

-----------------------------------------------------------------------------
(* Keyboard: handleKeyDown of CanvasView and the undo/redo listener of App *)

IsArrow(key) == key \in {"ArrowUp", "ArrowDown", "ArrowLeft", "ArrowRight"}

\* e.key.length === 1: every key but the named ones
IsCharacterKey(key) ==
    key \notin {"Delete", "Backspace", "Escape",
                "ArrowUp", "ArrowDown", "ArrowLeft", "ArrowRight"}

\* Math.round(movementCm * project.pixelsPerCm), movementCm = 1.0 with shift, else 0.5
MovementPixels(e) ==
    IF e.shiftKey THEN project.pixelsPerCm ELSE (project.pixelsPerCm + 1) \div 2

\* the arrow-nudge loop from the i-th selected id on; q is what the queued
\* updaters have produced so far, the coordinates are read from the last render
RECURSIVE NudgeFrom(_, _, _, _)
NudgeFrom(i, q, dx, dy) ==
    IF i > Len(selectedElementIds) THEN q
    ELSE LET id == selectedElementIds[i]
             element == FindById(id)
         IN IF element = NoElement THEN NudgeFrom(i + 1, q, dx, dy)
            ELSE NudgeFrom(i + 1,
                   updateElementWithHistory(q, id,
                      IF element.type = "line"
                      THEN [x |-> element.x + dx, y |-> element.y + dy,
                            endX |-> element.endX + dx, endY |-> element.endY + dy]
                      ELSE [x |-> element.x + dx, y |-> element.y + dy]),
                   dx, dy)

Nudge(e) ==
    LET movementPixels == MovementPixels(e)
        dx == CASE e.key = "ArrowLeft" -> -movementPixels
                [] e.key = "ArrowRight" -> movementPixels
                [] OTHER -> 0
        dy == CASE e.key = "ArrowUp" -> -movementPixels
                [] e.key = "ArrowDown" -> movementPixels
                [] OTHER -> 0
    IN NudgeFrom(1, [project |-> project, history |-> history,
                     historyIndex |-> historyIndex], dx, dy)

\* a variant of the copies that shifts them to the right only
OffsetCopiesRight(source) ==
    [i \in DOMAIN source |->
        LET baseNew == Merge(source[i], [id |-> nextId + i - 1,
                                         x |-> source[i].x + PasteOffset])
        IN IF source[i].type = "line"
           THEN Merge(baseNew, [endX |-> source[i].endX + PasteOffset])
           ELSE baseNew]

\* the copies paste and duplicate make of the elements of source
OffsetCopies(source) ==
    [i \in DOMAIN source |->
        LET baseNew == Merge(source[i], [id |-> nextId + i - 1,
                                         x |-> source[i].x + PasteOffset,
                                         y |-> source[i].y + PasteOffset])
        IN IF source[i].type = "line"
           THEN Merge(baseNew, [endX |-> source[i].endX + PasteOffset,
                                endY |-> source[i].endY + PasteOffset])
           ELSE baseNew]

AddCopies(source) ==
    LET newElements == OffsetCopies(source)
    IN Merge(addMultipleElements(newElements),
             [selectedElementIds |-> [i \in DOMAIN newElements |-> newElements[i].id],
              nextId |-> nextId + Len(newElements)])

SelectedElements ==
    SelectSeq(project.elements, LAMBDA el : Includes(selectedElementIds, el.id))

\* only an INPUT counts as a text-input widget
isInputOnly(e) == e.target = "INPUT"

\* target.tagName === 'INPUT' || target.tagName === 'TEXTAREA'
isInputField(e) == e.target \in {"INPUT", "TEXTAREA"}

\* Escape clears the selection and the tool whether the settings are open or not
onEscapeAlways == [showSettings |-> FALSE, selectedElementIds |-> <<>>, tool |-> "select"]

\* the Escape branch: setShowSettings(false), or onSelectElements([]) and
\* onSetTool('select')
onEscape ==
    IF showSettings THEN [showSettings |-> FALSE]
    ELSE [selectedElementIds |-> <<>>, tool |-> "select"]

\* e = [key, shiftKey, ctrlKey, altKey, target]; target is the tag name of the
\* event's target; ctrlKey stands for metaKey too
handleKeyDown(e) ==
    IF e.key \in {"Delete", "Backspace"} /\ ~isInputField(e)
    THEN IF Len(selectedElementIds) = 0 THEN NoUpdate
         ELSE IF Len(selectedElementIds) = 1 THEN deleteElement(selectedElementIds[1])
         ELSE deleteMultipleElements(selectedElementIds)
    ELSE IF e.key = "Escape"
    THEN onEscape
    ELSE IF e.ctrlKey /\ e.key = "a" /\ ~isInputField(e)
    THEN [selectedElementIds |-> [i \in DOMAIN project.elements |-> project.elements[i].id]]
    ELSE IF e.ctrlKey /\ e.key = "c" /\ ~isInputField(e)
    THEN IF Len(selectedElementIds) > 0 THEN [copiedElements |-> SelectedElements]
         ELSE NoUpdate
    ELSE IF e.ctrlKey /\ e.key = "v" /\ ~isInputField(e)
    THEN IF Len(copiedElements) > 0 THEN AddCopies(copiedElements) ELSE NoUpdate
    ELSE IF e.ctrlKey /\ e.key = "d" /\ ~isInputField(e)
    THEN IF Len(selectedElementIds) > 0 THEN AddCopies(SelectedElements) ELSE NoUpdate
    ELSE IF IsArrow(e.key) /\ ~isInputField(e)
    THEN IF Len(selectedElementIds) > 0 THEN Nudge(e) ELSE NoUpdate
    ELSE IF /\ ~isInputField(e) /\ Len(selectedElementIds) = 1 /\ IsCharacterKey(e.key)
            /\ ~e.ctrlKey /\ ~e.altKey
    THEN LET element == FindById(selectedElementIds[1])
         IN IF element # NoElement /\ element.type = "text"
            THEN updateElementWithHistory([project |-> project, history |-> history,
                                           historyIndex |-> historyIndex],
                                          selectedElementIds[1], [content |-> <<e.key>>])
            ELSE NoUpdate
    ELSE NoUpdate

\* history[historyIndex - 1]; of an entry that does not exist JSON.parse throws,
\* after setHistoryIndex and before setProjects
undo ==
    IF historyIndex > 0
    THEN IF historyIndex <= Len(history)
         THEN [historyIndex |-> historyIndex - 1, project |-> history[historyIndex]]
         ELSE [historyIndex |-> historyIndex - 1]
    ELSE NoUpdate

redo ==
    IF historyIndex < Len(history) - 1
    THEN [historyIndex |-> historyIndex + 1, project |-> history[historyIndex + 2]]
    ELSE NoUpdate

\* App's window listener: Ctrl+Z, Ctrl+Y / Ctrl+Shift+Z
appHandleKeyDown(e) ==
    IF e.ctrlKey /\ e.key = "z" /\ ~e.shiftKey THEN undo
    ELSE IF e.ctrlKey /\ (e.key = "y" \/ (e.key = "z" /\ e.shiftKey)) THEN redo
    ELSE NoUpdate

-----------------------------------------------------------------------------
(* PropertiesPanel: the fields shown for the selection, and App's wiring *)

PanelFields ==
    LET elements == SelectedElements
    IN IF Len(elements) = 0 THEN {}
       ELSE IF Len(elements) > 1 THEN {"locked"}
       ELSE {"x", "y", "locked"} \cup
            (CASE elements[1].type = "line" -> {"endX", "endY"}
               [] elements[1].type = "rectangle" -> {"width", "height", "rotation"}
               [] elements[1].type = "door" -> {"width", "rotation"}
               [] elements[1].type = "circle" -> {"radius"}
               [] elements[1].type = "text" -> {"rotation", "fontSize"}
               [] OTHER -> {})

\* onUpdateElement of the panel, as App wires it
panelUpdateElement(updates) ==
    IF Len(selectedElementIds) = 1
    THEN updateElementWithHistory([project |-> project, history |-> history,
                                   historyIndex |-> historyIndex],
                                  selectedElementIds[1], updates)
    ELSE IF Len(selectedElementIds) > 1
    THEN updateMultipleElements(selectedElementIds, updates)
    ELSE NoUpdate

-----------------------------------------------------------------------------
(* The events.  The environment: the pointer is at mouse (a screen point, on   *)
(* the canvas or not) with the buttons of buttons held; a button is pressed    *)
(* where the pointer is.                                                       *)

\* the screen points the pointer visits
Points ==
    { [x |-> 20, y |-> 60], [x |-> 40, y |-> 70], [x |-> 20, y |-> 20],
      [x |-> 20, y |-> 5], [x |-> 20, y |-> 110], [x |-> 100, y |-> 60] }

\* the presses: left, shift+left, alt+left, middle, right
Presses ==
    { [button |-> 0, shiftKey |-> FALSE, altKey |-> FALSE],
      [button |-> 0, shiftKey |-> TRUE, altKey |-> FALSE],
      [button |-> 0, shiftKey |-> FALSE, altKey |-> TRUE],
      [button |-> 1, shiftKey |-> FALSE, altKey |-> FALSE],
      [button |-> 2, shiftKey |-> FALSE, altKey |-> FALSE] }

\* the toolbar's buttons
ToolButtons == {"line", "rectangle", "door", "circle", "text"}

\* the key events
KeyEvents ==
    { [key |-> k, shiftKey |-> FALSE, ctrlKey |-> FALSE, altKey |-> FALSE,
       target |-> "BODY"] : k \in {"ArrowRight", "ArrowDown", "Escape", "Delete"} }
    \cup
    { [key |-> "ArrowLeft", shiftKey |-> TRUE, ctrlKey |-> FALSE, altKey |-> FALSE,
       target |-> "BODY"] }
    \cup
    { [key |-> k, shiftKey |-> FALSE, ctrlKey |-> TRUE, altKey |-> FALSE,
       target |-> "BODY"] : k \in {"a", "c", "v", "d", "z", "y"} }

\* the edits made in the properties panel
PanelEdits ==
    { [x |-> 20], [endX |-> 60], [width |-> 10], [height |-> 40], [radius |-> 30],
      [rotation |-> 1], [locked |-> TRUE], [locked |-> FALSE] }

EnvUnchanged == UNCHANGED <<buttons, mouse>>

\* onMouseDown
MouseDown(press) ==
    /\ mouse.inside
    /\ press.button \notin buttons
    /\ buttons' = buttons \cup {press.button}
    /\ mouse' = mouse
    /\ Commit(handleMouseDown([clientX |-> mouse.x, clientY |-> mouse.y,
                               button |-> press.button, shiftKey |-> press.shiftKey,
                               altKey |-> press.altKey]))
    /\ UNCHANGED probe

\* onMouseMove
MouseMove(p) ==
    /\ ~mouse.inside \/ p.x # mouse.x \/ p.y # mouse.y
    /\ mouse' = [x |-> p.x, y |-> p.y, inside |-> TRUE]
    /\ Commit(handleMouseMove([clientX |-> p.x, clientY |-> p.y]))
    /\ UNCHANGED <<buttons, probe>>

\* onMouseUp
MouseUp(b) ==
    /\ mouse.inside
    /\ b \in buttons
    /\ buttons' = buttons \ {b}
    /\ Commit(handleMouseUp)
    /\ UNCHANGED <<mouse, probe>>

\* onMouseLeave={handleMouseUp}; off the canvas the buttons are released unseen
MouseLeave ==
    /\ mouse.inside
    /\ mouse' = [mouse EXCEPT !.inside = FALSE]
    /\ buttons' = {}
    /\ Commit(handleMouseUp)
    /\ UNCHANGED probe

\* a click on a toolbar button (the pointer is off the canvas)
SetTool(t) ==
    /\ ~mouse.inside
    /\ t # tool
    /\ Commit([tool |-> t])
    /\ EnvUnchanged
    /\ UNCHANGED probe

\* a keydown on the window: both listeners see it
KeyDown(e) ==
    /\ Commit(Merge(handleKeyDown(e), appHandleKeyDown(e)))
    /\ EnvUnchanged
    /\ UNCHANGED probe

\* a committed edit of a field the properties panel shows
PanelEdit(updates) ==
    /\ ~mouse.inside
    /\ DOMAIN updates \subseteq PanelFields
    /\ Commit(panelUpdateElement(updates))
    /\ EnvUnchanged
    /\ UNCHANGED probe

-----------------------------------------------------------------------------
(* The canvas of a project with a rectangle, a locked rectangle over its       *)
(* rotation handle, and a wall                                                 *)

InitialElements ==
    << [id |-> 1, type |-> "rectangle", x |-> 0, y |-> 50, width |-> 40, height |-> 20,
        widthCm |-> <<40, PixelsPerCmDefault>>, heightCm |-> <<20, PixelsPerCmDefault>>],
       [id |-> 2, type |-> "rectangle", x |-> 10, y |-> 0, width |-> 20, height |-> 30,
        widthCm |-> <<20, PixelsPerCmDefault>>, heightCm |-> <<30, PixelsPerCmDefault>>,
        locked |-> TRUE],
       [id |-> 3, type |-> "line", x |-> 0, y |-> 110, endX |-> 40, endY |-> 110,
        lengthCm |-> <<40, PixelsPerCmDefault>>] >>

InitSession ==
    /\ isPanning = FALSE /\ panStart = Origin
    /\ isDrawing = FALSE /\ drawStart = Origin /\ tempElement = None
    /\ isDragging = FALSE /\ dragStart = Origin /\ dragReferenceId = NoId
    /\ elementStartPositions = <<>> /\ doorOriginalRotation = None
    /\ copiedElements = <<>>
    /\ isSelecting = FALSE /\ selectionBox = None /\ potentialSelection = FALSE
    /\ isRotating = FALSE /\ rotationStart = 0
    /\ isScaling = FALSE /\ scaleHandle = ""
    /\ showSettings = FALSE

Init ==
    /\ project = [elements |-> InitialElements, pixelsPerCm |-> PixelsPerCmDefault]
    /\ selectedElementIds = <<>>
    /\ tool = "select"
    /\ history = <<>>
    /\ historyIndex = -1
    /\ viewTransform = [scaleN |-> 1, scaleD |-> 1, offsetX |-> 0, offsetY |-> 0]
    /\ InitSession
    /\ nextId = 4
    /\ buttons = {}
    /\ mouse = [x |-> 20, y |-> 60, inside |-> TRUE]
    /\ events = 0
    /\ probe = None

\* one more event, of at most max
Tick(max) == events < max /\ events' = events + 1

Next ==
    \/ \E press \in Presses : Tick(MaxEvents) /\ MouseDown(press)
    \/ \E p \in Points : Tick(MaxEvents) /\ MouseMove(p)
    \/ \E b \in buttons : Tick(MaxEvents) /\ MouseUp(b)
    \/ Tick(MaxEvents) /\ MouseLeave
    \/ \E t \in ToolButtons : Tick(MaxEvents) /\ SetTool(t)

Spec == Init /\ [][Next]_vars

NextEdit ==
    \/ \E press \in Presses : Tick(MaxEditEvents) /\ MouseDown(press)
    \/ \E p \in Points : Tick(MaxEditEvents) /\ MouseMove(p)
    \/ \E b \in buttons : Tick(MaxEditEvents) /\ MouseUp(b)
    \/ Tick(MaxEditEvents) /\ MouseLeave
    \/ \E t \in ToolButtons : Tick(MaxEditEvents) /\ SetTool(t)
    \/ \E e \in KeyEvents : Tick(MaxEditEvents) /\ KeyDown(e)
    \/ \E updates \in PanelEdits : Tick(MaxEditEvents) /\ PanelEdit(updates)

SpecEdit == Init /\ [][NextEdit]_vars

-----------------------------------------------------------------------------
(* The geometric queries on their own: a canvas drawn from a pool of shapes,  *)
(* at a zoom of 1 or 2, queried at a world point; probe holds the last query  *)
(* and its result.                                                            *)

\* the sequences that list each member of the set ids once
Orderings(ids) ==
    {q \in UNION {[1..n -> ids] : n \in {Cardinality(ids)}} :
        \A i, j \in DOMAIN q : i # j => q[i] # q[j]}

\* the zoom factors of the queries
Zooms == {1, 2}

InitQuery(scenes) ==
    /\ project \in {[elements |-> scene, pixelsPerCm |-> PixelsPerCmDefault] :
                       scene \in scenes}
    /\ viewTransform \in {[scaleN |-> z, scaleD |-> 1, offsetX |-> 0, offsetY |-> 0] :
                             z \in Zooms}
    /\ selectedElementIds = <<>>
    /\ tool = "select"
    /\ history = <<>>
    /\ historyIndex = -1
    /\ InitSession
    /\ nextId = 4
    /\ buttons = {}
    /\ mouse = [x |-> 0, y |-> 0, inside |-> FALSE]
    /\ events = 0
    /\ probe = None

QueryUnchanged ==
    UNCHANGED <<project, selectedElementIds, tool, history, historyIndex, viewTransform,
                isPanning, panStart, isDrawing, drawStart, tempElement, isDragging,
                dragStart, dragReferenceId, elementStartPositions, doorOriginalRotation,
                copiedElements, isSelecting, selectionBox, potentialSelection,
                isRotating, rotationStart, isScaling, scaleHandle, showSettings,
                nextId, buttons, mouse, events>>

\* an overlapping rectangle, circle and wall, each locked or not
HitShape(id, locked) ==
    Merge(CASE id = 1 -> [id |-> 1, type |-> "rectangle", x |-> 0, y |-> 0,
                          width |-> 40, height |-> 40,
                          widthCm |-> <<40, PixelsPerCmDefault>>,
                          heightCm |-> <<40, PixelsPerCmDefault>>]
            [] id = 2 -> [id |-> 2, type |-> "circle", x |-> 30, y |-> 30, radius |-> 20,
                          radiusCm |-> <<20, PixelsPerCmDefault>>]
            [] id = 3 -> [id |-> 3, type |-> "line", x |-> 0, y |-> 20,
                          endX |-> 60, endY |-> 20,
                          lengthCm |-> <<60, PixelsPerCmDefault>>],
          IF locked THEN [locked |-> TRUE] ELSE NoUpdate)

HitScenes ==
    {[i \in DOMAIN order |-> HitShape(order[i], order[i] \in lockedIds)] :
        order \in Orderings({1, 2, 3}), lockedIds \in SUBSET {1, 2, 3}}

HitPoints ==
    {[x |-> 20, y |-> 20], [x |-> 30, y |-> 45], [x |-> 50, y |-> 28],
     [x |-> 5, y |-> 35], [x |-> 45, y |-> 22], [x |-> 100, y |-> 100]}

InitHit == InitQuery(HitScenes)

HitProbe(p) ==
    /\ probe' = Some([x |-> p.x, y |-> p.y, found |-> findElementAt(p.x, p.y)])
    /\ QueryUnchanged

NextHit == \E p \in HitPoints : HitProbe(p)

SpecHit == InitHit /\ [][NextHit]_vars

\* a wall, a rectangle beside its end, and a second wall running downwards
SnapShape(id) ==
    CASE id = 1 -> [id |-> 1, type |-> "line", x |-> 0, y |-> 0, endX |-> 100, endY |-> 0,
                    lengthCm |-> <<100, PixelsPerCmDefault>>]
      [] id = 2 -> [id |-> 2, type |-> "rectangle", x |-> 60, y |-> 10,
                    width |-> 40, height |-> 40,
                    widthCm |-> <<40, PixelsPerCmDefault>>,
                    heightCm |-> <<40, PixelsPerCmDefault>>]
      [] id = 3 -> [id |-> 3, type |-> "line", x |-> 130, y |-> -20,
                    endX |-> 130, endY |-> 40,
                    lengthCm |-> <<60, PixelsPerCmDefault>>]

SnapScenes ==
    {[i \in DOMAIN order |-> SnapShape(order[i])] :
        order \in UNION {Orderings(ids) : ids \in SUBSET {1, 2, 3}}}

SnapPoints ==
    {[x |-> 50, y |-> 5], [x |-> 50, y |-> -20], [x |-> 110, y |-> 0],
     [x |-> 150, y |-> 0], [x |-> 80, y |-> 5], [x |-> 120, y |-> 60],
     [x |-> 105, y |-> 30], [x |-> 0, y |-> 100]}

InitSnap == InitQuery(SnapScenes)

SnapProbe(p) ==
    /\ probe' = Some([point |-> p, nearest |-> findNearestLineOrWall(p)])
    /\ QueryUnchanged

NextSnap == \E p \in SnapPoints : SnapProbe(p)

SpecSnap == InitSnap /\ [][NextSnap]_vars

-----------------------------------------------------------------------------
(* Zooming and panning: a project opened at a stored view scale, the wheel    *)
(* turned at the pointer, and pans by a pan press, moves and the release.     *)

\* at most MaxViewEvents events in a behaviour of SpecView
MaxViewEvents == 5

\* the screen points of the pointer, near enough for pans within the bounds
ViewPoints ==
    { [x |-> 20, y |-> 60], [x |-> 22, y |-> 66], [x |-> 30, y |-> 60],
      [x |-> 49, y |-> 98], [x |-> 0, y |-> 0] }

\* the stored scales: the limits, values one wheel step from a limit, and 1
ViewScales == {<<1, 10>>, <<11, 100>>, <<1, 1>>, <<49, 10>>, <<5, 1>>}

\* deltaY of the wheel events
WheelDeltas == {-100, 0, 100}

PanPresses == {press \in Presses : IsPanButton(press)}

\* onWheel
Wheel(deltaY) ==
    /\ mouse.inside
    /\ Commit(handleWheel([clientX |-> mouse.x, clientY |-> mouse.y, deltaY |-> deltaY]))
    /\ EnvUnchanged
    /\ UNCHANGED probe

InitView ==
    /\ viewTransform \in {[scaleN |-> s[1], scaleD |-> s[2], offsetX |-> 0, offsetY |-> 0] :
                             s \in ViewScales}
    /\ project = [elements |-> InitialElements, pixelsPerCm |-> PixelsPerCmDefault,
                  viewTransform |-> viewTransform]
    /\ selectedElementIds = <<>>
    /\ tool = "select"
    /\ history = <<>>
    /\ historyIndex = -1
    /\ InitSession
    /\ nextId = 4
    /\ buttons = {}
    /\ mouse \in {[x |-> p.x, y |-> p.y, inside |-> TRUE] : p \in ViewPoints}
    /\ events = 0
    /\ probe = None

NextView ==
    \/ \E press \in PanPresses : Tick(MaxViewEvents) /\ MouseDown(press)
    \/ \E p \in ViewPoints : Tick(MaxViewEvents) /\ MouseMove(p)
    \/ \E b \in buttons : Tick(MaxViewEvents) /\ MouseUp(b)
    \/ \E deltaY \in WheelDeltas : Tick(MaxViewEvents) /\ Wheel(deltaY)

SpecView == InitView /\ [][NextView]_vars

-----------------------------------------------------------------------------
(* Dragging a selected door: a canvas with a wall, a rectangle, a line of      *)
(* length 0 and one door, which is attached to one of them, refers to an       *)
(* element that is gone or of the other kind, or is unattached                 *)

MaxDoorEvents == 5

DoorWalls ==
    << [id |-> 1, type |-> "line", x |-> 0, y |-> 0, endX |-> 100, endY |-> 0,
        lengthCm |-> <<100, PixelsPerCmDefault>>],
       [id |-> 2, type |-> "rectangle", x |-> 60, y |-> 40, width |-> 40, height |-> 40,
        widthCm |-> <<40, PixelsPerCmDefault>>, heightCm |-> <<40, PixelsPerCmDefault>>],
       [id |-> 4, type |-> "line", x |-> 20, y |-> 100, endX |-> 20, endY |-> 100,
        lengthCm |-> <<0, PixelsPerCmDefault>>] >>

\* a door of Door (types.ts) with the given hinge, rotation and attachment keys
DoorAt(x, y, rotation, attachment) ==
    Merge([id |-> 3, type |-> "door", x |-> x, y |-> y, width |-> 20,
           rotation |-> rotation], attachment)

\* the doors, each with the canvas point on its leaf where it is grabbed
DoorCases ==
    { [door |-> DoorAt(50, 0, 0, [attachedToLine |-> 1]), grab |-> [x |-> 60, y |-> 0]],
      [door |-> DoorAt(60, 50, 1, [attachedToRectangle |-> 2, attachmentSide |-> "left"]),
       grab |-> [x |-> 60, y |-> 60]],
      [door |-> DoorAt(20, 100, 0, [attachedToLine |-> 4]), grab |-> [x |-> 30, y |-> 100]],
      [door |-> DoorAt(20, 60, 2, NoUpdate), grab |-> [x |-> 10, y |-> 60]],
      [door |-> DoorAt(20, 60, 2, [attachedToLine |-> 9]), grab |-> [x |-> 10, y |-> 60]],
      [door |-> DoorAt(20, 60, 2, [attachedToLine |-> 2]), grab |-> [x |-> 10, y |-> 60]],
      [door |-> DoorAt(20, 60, 2, [attachedToRectangle |-> 9, attachmentSide |-> "top"]),
       grab |-> [x |-> 10, y |-> 60]],
      [door |-> DoorAt(20, 60, 2, [attachedToRectangle |-> 1, attachmentSide |-> "top"]),
       grab |-> [x |-> 10, y |-> 60]] }

\* the canvas points the pointer is moved to
DoorPoints ==
    { [x |-> 30, y |-> 10], [x |-> 30, y |-> 20], [x |-> 30, y |-> 40],
      [x |-> 80, y |-> 20], [x |-> 120, y |-> 10], [x |-> 50, y |-> 60] }

\* the screen point of a canvas point, the view not being panned
DoorScreen(p) == [x |-> p.x * ScaleN, y |-> p.y * ScaleN]

\* the plain left press
LeftPress == [button |-> 0, shiftKey |-> FALSE, altKey |-> FALSE]

InitDoor ==
    /\ \E c \in DoorCases, zoom \in {1, 2} :
        /\ project = [elements |-> Append(DoorWalls, c.door),
                      pixelsPerCm |-> PixelsPerCmDefault]
        /\ viewTransform = [scaleN |-> zoom, scaleD |-> 1, offsetX |-> 0, offsetY |-> 0]
        /\ mouse = [x |-> c.grab.x * zoom, y |-> c.grab.y * zoom, inside |-> TRUE]
    /\ selectedElementIds = <<3>>
    /\ tool = "select"
    /\ history = <<>>
    /\ historyIndex = -1
    /\ InitSession
    /\ nextId = 5
    /\ buttons = {}
    /\ events = 0
    /\ probe = None

NextDoor ==
    \/ Tick(MaxDoorEvents) /\ MouseDown(LeftPress)
    \/ \E p \in DoorPoints : Tick(MaxDoorEvents) /\ MouseMove(DoorScreen(p))
    \/ \E b \in buttons : Tick(MaxDoorEvents) /\ MouseUp(b)
    \/ Tick(MaxDoorEvents) /\ MouseLeave

SpecDoor == InitDoor /\ [][NextDoor]_vars

-----------------------------------------------------------------------------
(* The keyboard: a canvas with a rectangle, a text and a wall, some of them    *)
(* selected or copied; keys arrive with the canvas page, an input or a         *)
(* textarea as their target, and the settings can be opened                    *)

MaxKeyEvents == 3

KeyScene ==
    << InitialElements[1],
       [id |-> 2, type |-> "text", x |-> 60, y |-> 20,
        content |-> <<"T", "e", "x", "t">>, fontSize |-> DefaultFontSize],
       InitialElements[3] >>

\* the tag names of the targets of key events
KeyTargets == {"BODY", "INPUT", "TEXTAREA"}

\* the key events of the shortcuts, with each target
ShortcutEvents ==
    { [key |-> k, shiftKey |-> FALSE, ctrlKey |-> FALSE, altKey |-> FALSE, target |-> t] :
        k \in {"Delete", "Backspace", "Escape", "ArrowLeft", "x"}, t \in KeyTargets }
    \cup
    { [key |-> "ArrowUp", shiftKey |-> TRUE, ctrlKey |-> FALSE, altKey |-> FALSE,
       target |-> t] : t \in KeyTargets }
    \cup
    { [key |-> k, shiftKey |-> FALSE, ctrlKey |-> TRUE, altKey |-> FALSE, target |-> t] :
        k \in {"a", "c", "v", "d"}, t \in KeyTargets }

\* the screen points the pointer visits: on the rectangle, on the text, on
\* empty canvas
KeyPoints == { [x |-> 20, y |-> 60], [x |-> 62, y |-> 18], [x |-> 100, y |-> 60] }

\* the settings button: setShowSettings(!showSettings)
ToggleSettings ==
    /\ ~mouse.inside
    /\ Commit([showSettings |-> ~showSettings])
    /\ EnvUnchanged
    /\ UNCHANGED probe

InitKeys ==
    /\ project = [elements |-> KeyScene, pixelsPerCm |-> PixelsPerCmDefault]
    /\ selectedElementIds \in {<<>>, <<1>>, <<2>>, <<1, 3>>}
    /\ copiedElements \in {<<>>, <<KeyScene[1]>>}
    /\ tool = "select"
    /\ history = <<>>
    /\ historyIndex = -1
    /\ viewTransform = [scaleN |-> 1, scaleD |-> 1, offsetX |-> 0, offsetY |-> 0]
    /\ isPanning = FALSE /\ panStart = Origin
    /\ isDrawing = FALSE /\ drawStart = Origin /\ tempElement = None
    /\ isDragging = FALSE /\ dragStart = Origin /\ dragReferenceId = NoId
    /\ elementStartPositions = <<>> /\ doorOriginalRotation = None
    /\ isSelecting = FALSE /\ selectionBox = None /\ potentialSelection = FALSE
    /\ isRotating = FALSE /\ rotationStart = 0
    /\ isScaling = FALSE /\ scaleHandle = ""
    /\ showSettings = FALSE
    /\ nextId = 4
    /\ buttons = {}
    /\ mouse = [x |-> 20, y |-> 60, inside |-> FALSE]
    /\ events = 0
    /\ probe = None

\* a keydown on window, its event kept in probe
Key(e) ==
    /\ Commit(Merge(handleKeyDown(e), appHandleKeyDown(e)))
    /\ EnvUnchanged
    /\ probe' = <<e>>

NextKeys ==
    \/ \E e \in ShortcutEvents : Tick(MaxKeyEvents) /\ Key(e)
    \/ Tick(MaxKeyEvents) /\ ToggleSettings
    \/ \E t \in {"line", "text"} : Tick(MaxKeyEvents) /\ SetTool(t)
    \/ Tick(MaxKeyEvents) /\ MouseDown(LeftPress)
    \/ \E p \in KeyPoints : Tick(MaxKeyEvents) /\ MouseMove(p)
    \/ \E b \in buttons : Tick(MaxKeyEvents) /\ MouseUp(b)

SpecKeys == InitKeys /\ [][NextKeys]_vars

-----------------------------------------------------------------------------
(* Box selection: canvases with a wall, rectangles (one turned a quarter), a   *)
(* circle, a text and a door, at a zoom of 1 or 2; the pointer is pressed on   *)
(* empty canvas, with or without shift, moved and released                     *)

MaxBoxEvents == 5

BoxScenes ==
    { << [id |-> 1, type |-> "line", x |-> 0, y |-> 110, endX |-> 40, endY |-> 110,
          lengthCm |-> <<40, PixelsPerCmDefault>>],
         [id |-> 2, type |-> "rectangle", x |-> 0, y |-> 50, width |-> 40, height |-> 20,
          widthCm |-> <<40, PixelsPerCmDefault>>, heightCm |-> <<20, PixelsPerCmDefault>>],
         [id |-> 3, type |-> "rectangle", x |-> 60, y |-> 60, width |-> 40, height |-> 20,
          widthCm |-> <<40, PixelsPerCmDefault>>, heightCm |-> <<20, PixelsPerCmDefault>>,
          rotation |-> 1],
         [id |-> 4, type |-> "circle", x |-> 100, y |-> 20, radius |-> 10,
          radiusCm |-> <<10, PixelsPerCmDefault>>] >>,
      << [id |-> 1, type |-> "text", x |-> 60, y |-> 20,
          content |-> <<"T", "e", "x", "t">>, fontSize |-> DefaultFontSize],
         [id |-> 2, type |-> "rectangle", x |-> 0, y |-> 50, width |-> 40, height |-> 20,
          widthCm |-> <<40, PixelsPerCmDefault>>, heightCm |-> <<20, PixelsPerCmDefault>>],
         [id |-> 3, type |-> "door", x |-> 20, y |-> 100, width |-> 20, rotation |-> 3],
         [id |-> 4, type |-> "text", x |-> 90, y |-> 60,
          content |-> <<"T", "e", "x", "t">>, fontSize |-> DefaultFontSize,
          rotation |-> 1] >> }

\* the canvas points the pointer visits
BoxPoints ==
    { [x |-> 50, y |-> 40], [x |-> 55, y |-> 45], [x |-> 45, y |-> 75],
      [x |-> 110, y |-> 5], [x |-> 95, y |-> 95], [x |-> 5, y |-> 115],
      [x |-> 75, y |-> 55], [x |-> 53, y |-> 40] }

\* the left press, plain and with shift
BoxPresses == {LeftPress, [button |-> 0, shiftKey |-> TRUE, altKey |-> FALSE]}

InitBox ==
    /\ \E scene \in BoxScenes, zoom \in Zooms, p \in {[x |-> 50, y |-> 40], [x |-> 5, y |-> 115]} :
        /\ project = [elements |-> scene, pixelsPerCm |-> PixelsPerCmDefault]
        /\ viewTransform = [scaleN |-> zoom, scaleD |-> 1, offsetX |-> 0, offsetY |-> 0]
        /\ mouse = [x |-> p.x * zoom, y |-> p.y * zoom, inside |-> TRUE]
    /\ selectedElementIds \in {<<>>, <<2>>}
    /\ tool = "select"
    /\ history = <<>>
    /\ historyIndex = -1
    /\ InitSession
    /\ nextId = 5
    /\ buttons = {}
    /\ events = 0
    /\ probe = None

NextBox ==
    \/ \E press \in BoxPresses : Tick(MaxBoxEvents) /\ MouseDown(press)
    \/ \E p \in BoxPoints : Tick(MaxBoxEvents) /\ MouseMove(DoorScreen(p))
    \/ \E b \in buttons : Tick(MaxBoxEvents) /\ MouseUp(b)
    \/ Tick(MaxBoxEvents) /\ MouseLeave

SpecBox == InitBox /\ [][NextBox]_vars

-----------------------------------------------------------------------------
(* StorageService: export and import.  A JSON text is modelled by the tree     *)
(* JSON.parse reads from it, so JSON.stringify is the map from a value to that *)
(* tree: a key whose value is undefined is left out (the model's records have  *)
(* no such keys), NaN becomes null, a Date becomes its ISO string.             *)

\* JSON null
Null == -999999

\* the keys of elements and projects that hold numbers
NumberFields ==
    {"x", "y", "endX", "endY", "width", "height", "radius", "rotation", "opacity",
     "strokeWidth", "fontSize", "labelFontSize", "pixelsPerCm"}

\* the keys that hold Dates
DateFields == {"createdAt", "updatedAt"}

\* JSON.stringify of a number: NaN is written as null
jsonNumber(v) == IF v = NaN THEN Null ELSE v

\* Date.prototype.toJSON: the ISO string of the instant
toISOString(date) == [iso |-> date.time]

\* new Date(isoString)
newDate(iso) == [time |-> iso.iso]

\* JSON.stringify of an object with number, Date and other fields (a date that
\* was copied through JSON is a string already)
stringify(object) ==
    [k \in DOMAIN object |->
        IF k \in NumberFields THEN jsonNumber(object[k])
        ELSE IF k \in DateFields
             THEN IF Has(object[k], "time") THEN toISOString(object[k]) ELSE object[k]
        ELSE object[k]]

\* exportProject: JSON.stringify(project, null, 2)
exportProject(p) ==
    [stringify(p) EXCEPT
        !.elements = [i \in DOMAIN p.elements |-> stringify(p.elements[i])]]

\* v || d for a number v: null, NaN and 0 are falsy
NumberOr(object, k, d) ==
    IF Has(object, k) /\ object[k] \notin {Null, NaN, 0} THEN object[k] ELSE d

\* v || d for a string v: undefined and the empty string are falsy
StringOr(object, k, d) ==
    IF Has(object, k) /\ object[k] # "" THEN object[k] ELSE d

\* importProject: JSON.parse, Dates rebuilt, labelFontSize, viewTransform and
\* each element's fillColor defaulted when falsy
importProject(json) ==
    Merge(json,
          [createdAt |-> newDate(json.createdAt),
           updatedAt |-> newDate(json.updatedAt),
           labelFontSize |-> NumberOr(json, "labelFontSize", 12),
           viewTransform |-> Get(json, "viewTransform",
                                 [scaleN |-> 1, scaleD |-> 1, offsetX |-> 0, offsetY |-> 0]),
           elements |-> [i \in DOMAIN json.elements |->
                           LET e == json.elements[i]
                           IN Merge(e, [fillColor |->
                                           StringOr(e, "fillColor",
                                                    StringOr(e, "color", "#ffffff"))])]])

\* the fields every element is created with (handleMouseDown, handleMouseMove)
Styled(element) ==
    Merge(element, [color |-> "#000000", fillColor |-> "#f5f5f5", strokeWidth |-> 10])

\* elements as the editor makes them: drawn, then edited in the panel (a fill
\* made transparent, an opacity, a label, a lock, a rotation, a stroke width or
\* font size field left empty) or, for the door, dragged along a wall of
\* length 0
RoundElements ==
    LET line == Styled(InitialElements[3])
        rectangle == Styled(InitialElements[1])
        text == Styled(KeyScene[2])
        circle == Styled([id |-> 4, type |-> "circle", x |-> 100, y |-> 20, radius |-> 10,
                          radiusCm |-> <<10, PixelsPerCmDefault>>])
        door == Styled(DoorAt(50, 0, 0, [attachedToLine |-> 1]))
    IN { line, [line EXCEPT !.strokeWidth = NaN],
         rectangle,
         Merge(rectangle, [fillColor |-> "transparent", rotation |-> 1, locked |-> TRUE,
                           text |-> <<"A">>]),
         Merge(rectangle, [opacity |-> 1, locked |-> FALSE]),
         text, [text EXCEPT !.fontSize = NaN],
         circle, Merge(circle, [opacity |-> 0]),
         door,
         Styled(DoorAt(60, 50, 1, [attachedToRectangle |-> 2, attachmentSide |-> "left"])),
         Merge(door, [x |-> NaN, y |-> NaN]) }

\* the projects exported: one or two elements, created by createProject or
\* loaded, the view stored or not
RoundProjects ==
    { Merge([id |-> 1, name |-> "Project 1", createdAt |-> [time |-> 1],
             updatedAt |-> [time |-> 2], elements |-> elements, pixelsPerCm |-> 10,
             labelFontSize |-> 12],
            view) :
        elements \in {<<a>> : a \in RoundElements}
                     \cup {<<a, [b EXCEPT !.id = 7]>> : a, b \in RoundElements},
        view \in {NoUpdate,
                  [viewTransform |-> [scaleN |-> 2, scaleD |-> 1, offsetX |-> 5,
                                      offsetY |-> 0]]} }

\* the project exported is the whole state; probe holds the file and, after the
\* import, the project read back
InitRound ==
    /\ project \in RoundProjects
    /\ probe = None
    /\ selectedElementIds = <<>>
    /\ tool = "select"
    /\ history = <<>>
    /\ historyIndex = -1
    /\ viewTransform = [scaleN |-> 1, scaleD |-> 1, offsetX |-> 0, offsetY |-> 0]
    /\ InitSession
    /\ nextId = 8
    /\ buttons = {}
    /\ mouse = [x |-> 0, y |-> 0, inside |-> FALSE]
    /\ events = 0

\* StorageService.exportProject(project)
Export ==
    /\ probe = None
    /\ probe' = <<[json |-> exportProject(project)]>>
    /\ QueryUnchanged

\* StorageService.importProject(json)
Import ==
    /\ probe # None /\ ~Has(probe[1], "imported")
    /\ probe' = <<[json |-> probe[1].json, imported |-> importProject(probe[1].json)]>>
    /\ QueryUnchanged

NextRound == Export \/ Import

SpecRound == InitRound /\ [][NextRound]_vars

-----------------------------------------------------------------------------
(* App: the project list and its persistence in local storage.  probe holds  *)
(* the App's projects and currentProjectId, the items of local storage and    *)
(* the file reads in flight;                                                  *)
(* history holds snapshots of the project list.                               *)

\* the largest number of projects in the list (createProject is disabled beyond)
MaxProjects == 2
\* the number of events a run of the project list delivers
MaxStoreEvents == 5

projects == probe[1].projects
currentProjectId == probe[1].currentProjectId
localStorage == probe[1].localStorage
\* the FileReaders that have been started and have not fired onload yet
reading == probe[1].reading

\* new Date(): the clock is the number of events delivered
now == [time |-> events]

\* JSON.stringify(projects)
stringifyList(list) == [i \in DOMAIN list |-> exportProject(list[i])]

\* StorageService.saveProjects: the item written
saveProjects(list) == Some(stringifyList(list))

\* StorageService.loadProjects: the list read from the item, [] of no item
loadProjects(data) ==
    IF data = None THEN <<>> ELSE [i \in DOMAIN data[1] |-> importProject(data[1][i])]

\* projects.map(p => p.id === currentProjectId ? f(p) : p)
MapCurrent(f(_)) ==
    [i \in DOMAIN projects |->
        IF projects[i].id = currentProjectId THEN f(projects[i]) ELSE projects[i]]

\* projects.find(p => p.id === currentProjectId), of the list given
CurrentOf(list, id) ==
    IF \E i \in DOMAIN list : list[i].id = id
    THEN list[CHOOSE i \in DOMAIN list : list[i].id = id]
    ELSE [id |-> NoId, elements |-> <<>>]

\* saveHistory(newProjects) on the project list: the snapshot pushed is the
\* JSON copy of the list of the last render
saveHistoryOfList(newProjects) ==
    LET newHistory == Append(HistorySlice(history, historyIndex), stringifyList(projects))
    IN [history |-> newHistory, historyIndex |-> Len(newHistory) - 1,
        projects |-> newProjects]

createProject ==
    LET newProject == [id |-> nextId, name |-> <<"Project", Len(projects) + 1>>,
                       createdAt |-> now, updatedAt |-> now, elements |-> <<>>,
                       pixelsPerCm |-> 10, labelFontSize |-> 12]
    IN [projects |-> Append(projects, newProject), currentProjectId |-> newProject.id,
        nextId |-> nextId + 1]

deleteProject(projectId) ==
    Merge([projects |-> SelectSeq(projects, LAMBDA p : p.id # projectId)],
          IF currentProjectId = projectId THEN [currentProjectId |-> Null] ELSE NoUpdate)

selectProject(projectId) ==
    [currentProjectId |-> projectId, selectedElementIds |-> <<>>]

backToProjects == [currentProjectId |-> Null, selectedElementIds |-> <<>>]

renameProject(name) ==
    IF currentProjectId = Null THEN NoUpdate
    ELSE [projects |-> MapCurrent(LAMBDA p : Merge(p, [name |-> name, updatedAt |-> now]))]

\* addElement on the project list
addElementToList(element) ==
    IF currentProjectId = Null THEN NoUpdate
    ELSE saveHistoryOfList(MapCurrent(LAMBDA p :
             Merge(p, [elements |-> Append(p.elements, element), updatedAt |-> now])))

\* updateElement(elementId, updates) on the project list, with history
updateElementInList(elementId, updates) ==
    IF currentProjectId = Null THEN NoUpdate
    ELSE [projects |-> MapCurrent(LAMBDA p :
                           Merge(updateFn(p, elementId, updates, {}), [updatedAt |-> now])),
          history |-> Append(HistorySlice(history, historyIndex), stringifyList(projects)),
          historyIndex |-> historyIndex + 1]

\* deleteElement on the project list
deleteElementFromList(elementId) ==
    IF currentProjectId = Null THEN NoUpdate
    ELSE Merge(saveHistoryOfList(MapCurrent(LAMBDA p :
                   Merge(p, [elements |-> SelectSeq(p.elements, LAMBDA e : e.id # elementId),
                             updatedAt |-> now]))),
               [selectedElementIds |-> <<>>])

\* undo on the project list
undoList ==
    IF historyIndex > 0 /\ historyIndex <= Len(history)
    THEN [historyIndex |-> historyIndex - 1, projects |-> history[historyIndex]]
    ELSE NoUpdate

\* redo on the project list
redoList ==
    IF historyIndex < Len(history) - 1
    THEN [historyIndex |-> historyIndex + 1, projects |-> history[historyIndex + 2]]
    ELSE NoUpdate

\* what no handler of the project list touches
CanvasUnchanged ==
    UNCHANGED <<project, tool, viewTransform, isPanning, panStart, isDrawing, drawStart,
                tempElement, isDragging, dragStart, dragReferenceId, elementStartPositions,
                doorOriginalRotation, copiedElements, isSelecting, selectionBox,
                potentialSelection, isRotating, rotationStart, isScaling, scaleHandle,
                showSettings, buttons, mouse>>

\* The render after a handler and the effects it runs: the persistence effect
\* when setProjects was called (it saves a list that is not empty), and
\* saveCurrentProjectId when currentProjectId changed.
StoreCommit(u) ==
    LET newProjects == Get(u, "projects", projects)
        newId == Get(u, "currentProjectId", currentProjectId)
    IN /\ events < MaxStoreEvents
       /\ events' = events + 1
       /\ probe' = Some([projects |-> newProjects,
                         currentProjectId |-> newId,
                         localStorage |->
                            [projects |-> IF Has(u, "projects") /\ Len(newProjects) > 0
                                          THEN saveProjects(newProjects)
                                          ELSE localStorage.projects,
                             currentProject |-> IF newId # currentProjectId THEN newId
                                                ELSE localStorage.currentProject],
                         reading |-> reading])
       /\ selectedElementIds' = Get(u, "selectedElementIds", selectedElementIds)
       /\ history' = Get(u, "history", history)
       /\ historyIndex' = Get(u, "historyIndex", historyIndex)
       /\ nextId' = Get(u, "nextId", nextId)
       /\ CanvasUnchanged

\* the list view is shown when there is no current project, the canvas when the
\* current project is in the list
ListShown == currentProjectId = Null
CanvasShown == CurrentOf(projects, currentProjectId).id # NoId

\* the element drawn in a project
StoreElement(id) ==
    Styled([id |-> id, type |-> "rectangle", x |-> 0, y |-> 0, width |-> 10,
            height |-> 10, widthCm |-> <<10, PixelsPerCmDefault>>,
            heightCm |-> <<10, PixelsPerCmDefault>>])

CreateProject ==
    /\ ListShown
    /\ Len(projects) < MaxProjects
    /\ StoreCommit(createProject)

DeleteProject ==
    /\ ListShown
    /\ \E i \in DOMAIN projects : StoreCommit(deleteProject(projects[i].id))

SelectProject ==
    /\ ListShown
    /\ \E i \in DOMAIN projects : StoreCommit(selectProject(projects[i].id))

BackToProjects ==
    /\ CanvasShown
    /\ StoreCommit(backToProjects)

RenameProject ==
    /\ CanvasShown
    /\ StoreCommit(renameProject(<<"Plan">>))

AddElement ==
    /\ CanvasShown
    /\ Len(CurrentOf(projects, currentProjectId).elements) < 1
    /\ StoreCommit(Merge(addElementToList(StoreElement(nextId)), [nextId |-> nextId + 1]))

UpdateElement ==
    /\ CanvasShown
    /\ \E i \in DOMAIN CurrentOf(projects, currentProjectId).elements :
          LET e == CurrentOf(projects, currentProjectId).elements[i]
          IN StoreCommit(updateElementInList(e.id, [x |-> e.x + 5]))

DeleteElement ==
    /\ CanvasShown
    /\ \E i \in DOMAIN CurrentOf(projects, currentProjectId).elements :
          StoreCommit(deleteElementFromList(
                         CurrentOf(projects, currentProjectId).elements[i].id))

Undo ==
    /\ CanvasShown
    /\ StoreCommit(undoList)

Redo ==
    /\ CanvasShown
    /\ StoreCommit(redoList)

\* The page is loaded again: the mount effect reads the list and the current
\* project id from local storage, the persistence effect saves the list read
\* (when it is not empty), and saveCurrentProjectId stores the id shown.
Reload ==
    LET loadedProjects == loadProjects(localStorage.projects)
        loadedProjectId == localStorage.currentProject
        newId == IF loadedProjectId # Null
                    /\ CurrentOf(loadedProjects, loadedProjectId).id # NoId
                 THEN loadedProjectId ELSE Null
    IN /\ events < MaxStoreEvents
       /\ events' = events + 1
       /\ probe' = Some([projects |-> loadedProjects,
                         currentProjectId |-> newId,
                         localStorage |->
                            [projects |-> IF Len(loadedProjects) > 0
                                          THEN saveProjects(loadedProjects)
                                          ELSE localStorage.projects,
                             currentProject |-> newId],
                         reading |-> <<>>])
       /\ selectedElementIds' = <<>>
       /\ history' = <<>>
       /\ historyIndex' = -1
       /\ nextId' = nextId
       /\ CanvasUnchanged

\* the first visit: no item in local storage, no project
InitStore ==
    /\ probe = Some([projects |-> <<>>, currentProjectId |-> Null,
                     localStorage |-> [projects |-> None, currentProject |-> Null],
                     reading |-> <<>>])
    /\ project = [elements |-> <<>>, pixelsPerCm |-> PixelsPerCmDefault]
    /\ selectedElementIds = <<>>
    /\ tool = "select"
    /\ history = <<>>
    /\ historyIndex = -1
    /\ viewTransform = [scaleN |-> 1, scaleD |-> 1, offsetX |-> 0, offsetY |-> 0]
    /\ InitSession
    /\ nextId = 1
    /\ buttons = {}
    /\ mouse = [x |-> 0, y |-> 0, inside |-> FALSE]
    /\ events = 0

NextStore ==
    \/ CreateProject
    \/ DeleteProject
    \/ SelectProject
    \/ BackToProjects
    \/ RenameProject
    \/ AddElement
    \/ UpdateElement
    \/ DeleteElement
    \/ Undo
    \/ Redo
    \/ Reload

SpecStore == InitStore /\ [][NextStore]_vars

-----------------------------------------------------------------------------
(* PropertiesPanel: the numeric fields.  probe holds the NumericInput that has *)
(* the focus: its field, its editValue and isEditing.  A text is a sequence of *)
(* characters; a number read from a text is a fraction <<numerator,            *)
(* denominator>>, <<NaN, 1>> when it is NaN.                                    *)

\* the number of events a run of the panel delivers
MaxPanelEvents == 5

DigitChars == <<"0", "1", "2", "3", "4", "5", "6", "7", "8", "9">>
IsDigit(c) == \E i \in 1..10 : DigitChars[i] = c
DigitOf(c) == (CHOOSE i \in 1..10 : DigitChars[i] = c) - 1

\* the first position from i on that holds no digit
RECURSIVE DigitsEnd(_, _)
DigitsEnd(text, i) ==
    IF i <= Len(text) /\ IsDigit(text[i]) THEN DigitsEnd(text, i + 1) ELSE i

\* the number written by the digits text[i .. j - 1]
RECURSIVE DigitsValue(_, _, _)
DigitsValue(text, i, j) ==
    IF j <= i THEN 0 ELSE DigitsValue(text, i, j - 1) * 10 + DigitOf(text[j - 1])

RECURSIVE Pow10(_)
Pow10(n) == IF n = 0 THEN 1 ELSE 10 * Pow10(n - 1)

\* parseFloat: the longest prefix that is a decimal literal (sign, digits, a
\* point and digits); NaN when there is none.  The texts of the model hold no
\* white space, exponent or "Infinity".
parseFloat(text) ==
    LET signed == Len(text) > 0 /\ text[1] \in {"-", "+"}
        s == IF signed THEN 2 ELSE 1
        e == DigitsEnd(text, s)
        f == IF e <= Len(text) /\ text[e] = "." THEN DigitsEnd(text, e + 1) ELSE e
        fraction == IF f > e THEN f - e - 1 ELSE 0
        magnitude == DigitsValue(text, s, e) * Pow10(fraction) + DigitsValue(text, e + 1, f)
    IN IF (e - s) + fraction = 0 THEN <<NaN, 1>>
       ELSE <<IF signed /\ text[1] = "-" THEN -magnitude ELSE magnitude, Pow10(fraction)>>

\* a variant of isNaN that takes every number for a number
isNaNNever(number) == FALSE

isNaN(number) == number[1] = NaN

\* the decimal digits of a natural number
RECURSIVE NatToString(_)
NatToString(n) ==
    IF n < 10 THEN <<DigitChars[n + 1]>>
    ELSE Append(NatToString(n \div 10), DigitChars[(n % 10) + 1])

\* Number.prototype.toString of pixels / pixelsPerCm, of at most one decimal
toString(pixels, pixelsPerCm) ==
    LET tenths == (Abs(pixels) * 10) \div pixelsPerCm
    IN (IF pixels < 0 THEN <<"-">> ELSE <<>>)
       \o NatToString(tenths \div 10)
       \o (IF tenths % 10 = 0 THEN <<>> ELSE <<".", DigitChars[(tenths % 10) + 1]>>)

\* the value attribute of an <input type="number">: the text when it is a valid
\* floating-point number, else the empty string
numberInputValue(text) ==
    LET s == IF Len(text) > 0 /\ text[1] = "-" THEN 2 ELSE 1
        e == DigitsEnd(text, s)
        f == IF e <= Len(text) /\ text[e] = "." THEN DigitsEnd(text, e + 1) ELSE e
    IN IF e > s /\ (f = e \/ f > e + 1) /\ f = Len(text) + 1 THEN text ELSE <<>>

\* number * factor / divisor when it is an integer
TimesOver(number, factor, divisor) ==
    IF (number[1] * factor) % (number[2] * divisor) = 0
    THEN Some((number[1] * factor) \div (number[2] * divisor))
    ELSE None

\* the fields of the element shown as a NumericInput
NumericInputs(element) ==
    {"x", "y"} \cup
    (CASE element.type = "line" -> {"endX", "endY"}
       [] element.type = "rectangle" -> {"width", "height", "rotation"}
       [] element.type = "door" -> {"width", "rotation"}
       [] element.type = "circle" -> {"radius"}
       [] element.type = "text" -> {"rotation"}
       [] OTHER -> {})

\* the value prop of the NumericInput of a field, as a text: centimetres, or
\* degrees for the rotation
valueToString(element, field) ==
    CASE field = "rotation" -> toString(Rotation(element) * 90, 1)
      [] element.type = "rectangle" /\ field = "width" ->
           toString(element.widthCm[1], element.widthCm[2])
      [] element.type = "rectangle" /\ field = "height" ->
           toString(element.heightCm[1], element.heightCm[2])
      [] OTHER -> toString(element[field], project.pixelsPerCm)

\* the onChange prop of the NumericInput of a field: centimetres to pixels,
\* degrees to radians (here quarter turns)
numericOnChange(field, number) ==
    LET value == IF field = "rotation" THEN TimesOver(number, 1, 90)
                 ELSE TimesOver(number, project.pixelsPerCm, 1)
    IN IF value = None \/ Abs(value[1]) > MaxCoord THEN Inexact
       ELSE panelUpdateElement([f \in {field} |-> value[1]])

\* handleBlur of NumericInput
handleBlur(field, editValue) ==
    LET parsed == parseFloat(editValue)
    IN IF ~isNaN(parsed) THEN numericOnChange(field, parsed) ELSE NoUpdate

\* onChange of an <input type="number"> of the panel (stroke width, font size):
\* onUpdateElement({ [field]: parseFloat(e.target.value) })
numberOnChange(field, text) ==
    LET number == parseFloat(numberInputValue(text))
    IN IF TimesOver(number, 1, 1) = None THEN Inexact
       ELSE panelUpdateElement([f \in {field} |-> TimesOver(number, 1, 1)[1]])

updateProjectSettings(settings) == [project |-> Merge(project, settings)]

\* onChange of the Label Font Size input of the settings
labelFontSizeOnChange(text) ==
    LET number == parseFloat(numberInputValue(text))
    IN IF TimesOver(number, 1, 1) = None THEN Inexact
       ELSE updateProjectSettings([labelFontSize |-> TimesOver(number, 1, 1)[1]])

\* the texts typed into a field
PanelTexts ==
    { <<>>, <<"a", "b", "c">>, <<"-">>, <<".">>, <<"2">>, <<"2", ".", "5">>, <<"-", "3">>,
      <<"9", "0">>, <<"4", "c", "m">>, <<"1", ".">> }

PanelScene ==
    << Styled(InitialElements[1]), Styled(KeyScene[2]), Styled(InitialElements[3]),
       Styled([id |-> 4, type |-> "circle", x |-> 100, y |-> 20, radius |-> 10,
               radiusCm |-> <<10, PixelsPerCmDefault>>]) >>

InitPanel ==
    /\ project = [elements |-> PanelScene, pixelsPerCm |-> PixelsPerCmDefault,
                  labelFontSize |-> 12]
    /\ selectedElementIds \in {<<1>>, <<2>>, <<3>>, <<4>>, <<1, 3>>}
    /\ probe = None
    /\ tool = "select"
    /\ history = <<>>
    /\ historyIndex = -1
    /\ viewTransform = [scaleN |-> 1, scaleD |-> 1, offsetX |-> 0, offsetY |-> 0]
    /\ InitSession
    /\ nextId = 5
    /\ buttons = {}
    /\ mouse = [x |-> 0, y |-> 0, inside |-> FALSE]
    /\ events = 0

\* handleFocus of the NumericInput of a field of the selected element
Focus(field) ==
    /\ probe = None
    /\ Len(SelectedElements) = 1
    /\ field \in NumericInputs(SelectedElements[1])
    /\ probe' = Some([field |-> field,
                      editValue |-> valueToString(SelectedElements[1], field),
                      isEditing |-> TRUE])
    /\ CanvasUnchanged
    /\ UNCHANGED <<selectedElementIds, history, historyIndex, nextId>>

\* onChange of the focused NumericInput
Type(text) ==
    /\ probe # None
    /\ probe' = Some([probe[1] EXCEPT !.editValue = text])
    /\ CanvasUnchanged
    /\ UNCHANGED <<selectedElementIds, history, historyIndex, nextId>>

\* onBlur of the focused NumericInput (Tab, a click elsewhere, or Enter)
Blur ==
    /\ probe # None
    /\ probe' = None
    /\ Commit(handleBlur(probe[1].field, probe[1].editValue))
    /\ EnvUnchanged

\* Escape in the focused NumericInput: its handleKeyDown, then the listeners of
\* the window
EscapeInField ==
    LET e == [key |-> "Escape", shiftKey |-> FALSE, ctrlKey |-> FALSE, altKey |-> FALSE,
              target |-> "INPUT"]
    IN /\ probe # None
       /\ probe' = Some([probe[1] EXCEPT !.isEditing = FALSE, !.editValue = <<>>])
       /\ Commit(Merge(handleKeyDown(e), appHandleKeyDown(e)))
       /\ EnvUnchanged

\* an edit of the Stroke Width field, or of the Font Size field of a text
NumberInput(field, text) ==
    /\ probe = None
    /\ Len(SelectedElements) >= 1
    /\ field = "fontSize" => (Len(SelectedElements) = 1 /\ SelectedElements[1].type = "text")
    /\ Commit(numberOnChange(field, text))
    /\ EnvUnchanged
    /\ UNCHANGED probe

\* the Opacity slider moved to an end
OpacityInput(value) ==
    /\ probe = None
    /\ Len(SelectedElements) >= 1
    /\ SelectedElements[1].fillColor # "transparent"
    /\ Commit(panelUpdateElement([opacity |-> value]))
    /\ EnvUnchanged
    /\ UNCHANGED probe

\* an edit of the Label Font Size field of the settings
LabelFontSizeInput(text) ==
    /\ probe = None
    /\ showSettings
    /\ Commit(labelFontSizeOnChange(text))
    /\ EnvUnchanged
    /\ UNCHANGED probe

NextPanel ==
    \/ \E field \in {"x", "y", "endX", "endY", "width", "height", "radius", "rotation"} :
          Tick(MaxPanelEvents) /\ Focus(field)
    \/ \E text \in PanelTexts : Tick(MaxPanelEvents) /\ Type(text)
    \/ Tick(MaxPanelEvents) /\ Blur
    \/ Tick(MaxPanelEvents) /\ EscapeInField
    \/ \E field \in {"strokeWidth", "fontSize"}, text \in PanelTexts :
          Tick(MaxPanelEvents) /\ NumberInput(field, text)
    \/ \E value \in {0, 1} : Tick(MaxPanelEvents) /\ OpacityInput(value)
    \/ Tick(MaxPanelEvents) /\ probe = None /\ ToggleSettings
    \/ \E text \in PanelTexts : Tick(MaxPanelEvents) /\ LabelFontSizeInput(text)

SpecPanel == InitPanel /\ [][NextPanel]_vars

-----------------------------------------------------------------------------
(* Properties of the manipulation session *)

\* no gesture mode is active
Idle ==
    /\ ~isPanning /\ ~isRotating /\ ~isScaling /\ ~isDragging
    /\ ~potentialSelection /\ ~isSelecting /\ ~isDrawing

\* the element of the project p with the id of el (NoElement when there is none)
SameElementIn(p, el) ==
    IF \E i \in DOMAIN p.elements : p.elements[i].id = el.id
    THEN p.elements[CHOOSE i \in DOMAIN p.elements : p.elements[i].id = el.id]
    ELSE NoElement

\* the step is a pointer-up or a pointer-leave
ReleaseStep == (\E b \in buttons : MouseUp(b)) \/ MouseLeave

\* the step is a pointer-down, a pointer-move, a pointer-up or a pointer-leave
PointerStep ==
    \/ \E press \in Presses : MouseDown(press)
    \/ \E p \in Points : MouseMove(p)
    \/ ReleaseStep

\* the world point under the pointer
PointerPoint == screenToCanvas(mouse.x, mouse.y)

\* C1: after every pointer-up that leaves no button held, and after every
\* pointer-leave, the session is Idle: no gesture mode remains active.
C1_IdleAfterRelease ==
    [][(ReleaseStep /\ buttons' = {}) => Idle']_vars

\* C1: a release that leaves a mode behind: a press and release with a drawing
\* tool and no move between them leaves Drawing active with no button held
C1_StuckDrawing ==
    isDrawing /\ tempElement = None /\ buttons = {} /\ mouse.inside /\ events > 0

\* the ids of the unlocked elements of the selection ids
UnlockedOf(ids) ==
    {id \in SeqToSet(ids) : FindById(id) # NoElement /\ ~Locked(FindById(id))}

\* the press reaches the hit test of the select tool and hits an unlocked element
HitsUnlocked(press) ==
    /\ tool = "select"
    /\ ~(press.button \in {1, 2} \/ press.altKey)
    /\ ~OnRotationHandle(PointerPoint)
    /\ ~OnScaleHandle(PointerPoint)
    /\ findElementAt(PointerPoint.x, PointerPoint.y) # NoElement
    /\ ~Locked(findElementAt(PointerPoint.x, PointerPoint.y))

\* the move is handled by the Dragging branch
DragBranch ==
    /\ ~isPanning
    /\ ~(isRotating /\ Len(selectedElementIds) = 1)
    /\ ~(isScaling /\ scaleHandle # "" /\ Len(selectedElementIds) = 1)
    /\ isDragging /\ Len(selectedElementIds) > 0 /\ dragReferenceId # NoId

\* el sits at its snapshot position plus (dx, dy), a Line with both endpoints
MovedFromSnapshot(el, startPos, dx, dy) ==
    /\ el.x = startPos.x + dx
    /\ el.y = startPos.y + dy
    /\ el.type = "line" => (el.endX = startPos.endX + dx /\ el.endY = startPos.endY + dy)

\* C2: a select-tool press that hits an unlocked element captures a snapshot of
\* exactly the unlocked elements of the selection as the press leaves it, and
\* every pointer-move of the drag puts each of them (doors apart, which snap)
\* at its snapshot position plus (pointer - origin).
C2_DragSnapshot ==
    [][/\ \A press \in Presses :
            (MouseDown(press) /\ HitsUnlocked(press)) =>
                /\ isDragging'
                /\ DOMAIN elementStartPositions' = UnlockedOf(selectedElementIds')
          /\ \A p \in Points :
            (MouseMove(p) /\ DragBranch) =>
                \A id \in DOMAIN elementStartPositions :
                    LET el == SameElementIn(project', [id |-> id])
                        point == screenToCanvas(p.x, p.y)
                    IN (el # NoElement /\ ~Locked(el) /\ el.type # "door") =>
                          MovedFromSnapshot(el, elementStartPositions[id],
                                            point.x - dragStart.x, point.y - dragStart.y)
      ]_vars

\* C2: a drag is under way whose snapshot lacks the element that was pressed
C2_SnapshotMissesClicked ==
    /\ isDragging
    /\ dragReferenceId \in SeqToSet(selectedElementIds)
    /\ dragReferenceId \notin DOMAIN elementStartPositions

\* the geometry a locked element must keep
SameGeometry(a, b) ==
    /\ b # NoElement
    /\ a.x = b.x /\ a.y = b.y
    /\ Rotation(a) = Rotation(b)
    /\ \A k \in {"endX", "endY", "width", "height", "fontSize"} :
          Has(a, k) => (Has(b, k) /\ a[k] = b[k])

\* C3: no pointer-down, pointer-move, pointer-up or pointer-leave changes the
\* position, end point, rotation, width, height or font size of a locked element.
C3_LockedUnchanged ==
    [][PointerStep =>
         \A i \in DOMAIN project.elements :
            Locked(project.elements[i]) =>
               SameGeometry(project.elements[i],
                            SameElementIn(project', project.elements[i]))]_vars

\* C3: the locked rectangle of the initial canvas, no longer as it was
C3_LockedChanged ==
    \E i \in DOMAIN project.elements :
       /\ project.elements[i].id = 2
       /\ Locked(project.elements[i])
       /\ ~SameGeometry(InitialElements[2], project.elements[i])

\* the release is handled by the Drawing branch, or by none at all while Drawing
DrawingRelease ==
    /\ ReleaseStep
    /\ isDrawing
    /\ ~isPanning /\ ~isRotating /\ ~isScaling /\ ~isDragging
    /\ ~potentialSelection /\ ~isSelecting

\* el is the element a Drawing gesture from origin to point builds
BuiltFrom(el, origin, point) ==
    CASE el.type = "line" ->
            /\ el.x = origin.x /\ el.y = origin.y
            /\ el.endX = point.x /\ el.endY = point.y
      [] el.type = "rectangle" ->
            /\ el.x = Min(origin.x, point.x) /\ el.y = Min(origin.y, point.y)
            /\ el.width = Abs(point.x - origin.x)
            /\ el.height = Abs(point.y - origin.y)
      [] el.type = "circle" ->
            /\ el.x = origin.x /\ el.y = origin.y
            /\ el.radius * el.radius =
                  (point.x - origin.x) * (point.x - origin.x)
                    + (point.y - origin.y) * (point.y - origin.y)
      [] OTHER -> FALSE

\* C6: the release that ends a Drawing gesture appends exactly one element,
\* built from the gesture origin and the last pointer position, resets the
\* tool to select and leaves Drawing, however many pointer-moves came before.
C6_DrawingCommits ==
    [][DrawingRelease =>
          /\ Len(project'.elements) = Len(project.elements) + 1
          /\ SubSeq(project'.elements, 1, Len(project.elements)) = project.elements
          /\ BuiltFrom(project'.elements[Len(project'.elements)], drawStart, PointerPoint)
          /\ tool' = "select"
          /\ ~isDrawing']_vars

\* C6: a Drawing gesture released without a pointer-move: nothing was added
\* and the drawing tool is still armed
C6_NothingDrawn ==
    /\ isDrawing /\ tempElement = None /\ buttons = {} /\ mouse.inside
    /\ tool \in {"line", "rectangle", "circle"}
    /\ project.elements = InitialElements

\* the press is a pan press: middle button, right button or Alt+left
PanPress(press) == press.button \in {1, 2} \/ (press.button = 0 /\ press.altKey)

\* the modes a guard that fires leaves alone, with the selection and the elements
GuardOnly(modes) ==
    /\ selectedElementIds' = selectedElementIds
    /\ project' = project
    /\ tool' = tool
    /\ ("isPanning" \notin modes) => (isPanning' = isPanning)
    /\ ("isRotating" \notin modes) => (isRotating' = isRotating)
    /\ ("isScaling" \notin modes) => (isScaling' = isScaling)
    /\ isDragging' = isDragging
    /\ potentialSelection' = potentialSelection
    /\ isDrawing' = isDrawing

\* what the hit test and the tool dispatch do when they are reached
Dispatched(press) ==
    LET clicked == findElementAt(PointerPoint.x, PointerPoint.y)
    IN /\ isPanning' = isPanning /\ isRotating' = isRotating /\ isScaling' = isScaling
       /\ (tool = "select" /\ clicked # NoElement) =>
             /\ press.shiftKey \/ clicked.id \in SeqToSet(selectedElementIds')
             /\ isDragging' = (isDragging \/ ~Locked(clicked))
       /\ (tool = "select" /\ clicked = NoElement) =>
             /\ potentialSelection'
             /\ press.shiftKey \/ selectedElementIds' = <<>>
       /\ tool \in {"line", "rectangle", "circle"} => isDrawing'
       /\ tool \in {"text", "door"} =>
             /\ Len(project'.elements) = Len(project.elements) + 1
             /\ tool' = "select"

\* C9: a pointer-down takes the first guard that applies: a pan press enters
\* Panning whatever the tool and changes neither selection nor elements; else
\* a press on the rotation handle of the single selected unlocked element
\* (select tool) enters Rotating, even over an element; else a press on one of
\* its scale handles enters Scaling, even over an element; only otherwise are
\* the hit test and the tool dispatch reached.
C9_GuardPriority ==
    [][\A press \in Presses :
         MouseDown(press) =>
            LET onRotation == /\ HandleTarget # NoElement
                              /\ getRotationHandle(PointerPoint, HandleTarget)
                onScale == /\ HandleTarget # NoElement
                           /\ getScaleHandle(PointerPoint, HandleTarget) # ""
            IN IF PanPress(press) THEN isPanning' /\ GuardOnly({"isPanning"})
               ELSE IF onRotation THEN isRotating' /\ GuardOnly({"isRotating"})
               ELSE IF onScale
               THEN /\ isScaling' /\ GuardOnly({"isScaling"})
                    /\ scaleHandle' = getScaleHandle(PointerPoint, HandleTarget)
               ELSE Dispatched(press)]_vars

\* C9: Rotating was entered by a press on the rotation handle of rectangle 1
\* at a point that also lies on the locked rectangle 2
C9_RotatingOverElement ==
    /\ isRotating /\ ~isDragging /\ ~isPanning
    /\ selectedElementIds = <<1>>
    /\ buttons = {0}
    /\ getRotationHandle(PointerPoint, FindById(1))
    /\ findElementAt(PointerPoint.x, PointerPoint.y) # NoElement

\* the move is handled by the Scaling branch, on a rectangle
ScalingRectangle ==
    /\ ~isPanning
    /\ ~(isRotating /\ Len(selectedElementIds) = 1)
    /\ isScaling /\ scaleHandle # "" /\ Len(selectedElementIds) = 1
    /\ FindById(selectedElementIds[1]) # NoElement
    /\ FindById(selectedElementIds[1]).type = "rectangle"

\* the width and height a scaling move to p asks for
AskedSize(p) ==
    LET el == FindById(selectedElementIds[1])
        dx == screenToCanvas(p.x, p.y).x - drawStart.x
        dy == screenToCanvas(p.x, p.y).y - drawStart.y
    IN [width |-> el.width + (IF scaleHandle \in {"e", "ne", "se"} THEN dx
                              ELSE IF scaleHandle \in {"w", "nw", "sw"} THEN -dx ELSE 0),
        height |-> el.height + (IF scaleHandle \in {"s", "se", "sw"} THEN dy
                                ELSE IF scaleHandle \in {"n", "ne", "nw"} THEN -dy ELSE 0)]

\* the scaled rectangle after the move
Scaled == SameElementIn(project', FindById(selectedElementIds[1]))

\* the move was applied: the rectangle has the size asked for
ScaleApplied(p) ==
    Scaled.width = AskedSize(p).width /\ Scaled.height = AskedSize(p).height

\* the move was discarded: the rectangle is as it was
ScaleDiscarded == Scaled = FindById(selectedElementIds[1])

\* C10 (amended): a scaling move of a rectangle is applied when the resulting
\* width and height both exceed 10px and is discarded, the element unchanged,
\* when either is 10px or less; so a rectangle of at least 10px by 10px never
\* gets a width or height below 10px under scaling moves.
C10_ScaleFloorStrict ==
    [][\A p \in Points :
         (MouseMove(p) /\ ScalingRectangle) =>
            /\ (AskedSize(p).width > 10 /\ AskedSize(p).height > 10) => ScaleApplied(p)
            /\ (AskedSize(p).width <= 10 \/ AskedSize(p).height <= 10) => ScaleDiscarded
            /\ (FindById(selectedElementIds[1]).width >= 10
                  /\ FindById(selectedElementIds[1]).height >= 10)
                 => (Scaled.width >= 10 /\ Scaled.height >= 10)]_vars

\* C10: a scaling move of a rectangle is applied when the resulting width and
\* height are both at least 10px, and discarded when either is below 10px.
C10_ScaleFloorAtLeast ==
    [][\A p \in Points :
         (MouseMove(p) /\ ScalingRectangle) =>
            /\ (AskedSize(p).width >= 10 /\ AskedSize(p).height >= 10) => ScaleApplied(p)
            /\ (AskedSize(p).width < 10 \/ AskedSize(p).height < 10) => ScaleDiscarded]_vars

\* C10: rectangle 1 is being scaled by its south-east handle, has been resized
\* by one move, and the pointer has then asked for a height of exactly 10px
C10_ScaledThenRefused ==
    /\ isScaling /\ scaleHandle = "se" /\ selectedElementIds = <<1>>
    /\ FindById(1) # NoElement
    /\ FindById(1).width # 40
    /\ FindById(1).height + (PointerPoint.y - drawStart.y) = 10
    /\ FindById(1).height > 10

\* C4: an arrow key, with or without shift, leaves the position of every locked
\* element of the selection unchanged.
C4_LockedNotNudged ==
    [][\A e \in KeyEvents :
         (KeyDown(e) /\ IsArrow(e.key)) =>
            \A i \in DOMAIN project.elements :
               (Locked(project.elements[i])
                  /\ project.elements[i].id \in SeqToSet(selectedElementIds)) =>
                     SameGeometry(project.elements[i],
                                  SameElementIn(project', project.elements[i]))]_vars

\* C4: the locked rectangle of the initial canvas is selected, still locked,
\* and away from where it was
C4_LockedNudged ==
    /\ selectedElementIds = <<2>>
    /\ FindById(2) # NoElement /\ Locked(FindById(2))
    /\ <<FindById(2).x, FindById(2).y>> # <<InitialElements[2].x, InitialElements[2].y>>

\* cm is the rational pixels / pixelsPerCm
IsCmOf(cm, pixels, pixelsPerCm) ==
    cm[2] # 0 /\ cm[1] * pixelsPerCm = pixels * cm[2]

\* the cached centimetre fields of el agree with its pixel geometry
CmConsistent(el, pixelsPerCm) ==
    CASE el.type = "line" ->
            LET dx == el.endX - el.x
                dy == el.endY - el.y
            IN /\ el.lengthCm[2] > 0 /\ el.lengthCm[1] >= 0
               /\ el.lengthCm[1] * el.lengthCm[1] * pixelsPerCm * pixelsPerCm
                    = (dx * dx + dy * dy) * el.lengthCm[2] * el.lengthCm[2]
      [] el.type = "rectangle" ->
            /\ IsCmOf(el.widthCm, el.width, pixelsPerCm)
            /\ IsCmOf(el.heightCm, el.height, pixelsPerCm)
      [] el.type = "circle" -> IsCmOf(el.radiusCm, el.radius, pixelsPerCm)
      [] OTHER -> TRUE

\* C5: in every reachable state every Line has lengthCm = distance(start, end) /
\* pixelsPerCm, every Rectangle widthCm = width / pixelsPerCm and heightCm =
\* height / pixelsPerCm, every Circle radiusCm = radius / pixelsPerCm.
C5_CmConsistent ==
    \A i \in DOMAIN project.elements :
       CmConsistent(project.elements[i], project.pixelsPerCm)

\* C5: rectangle 1 has been resized, an element has been added after the
\* initial three, and the history holds a snapshot
C5_ResizedAndCopied ==
    /\ FindById(1) # NoElement /\ FindById(1).width # InitialElements[1].width
    /\ \E i \in DOMAIN project.elements :
          /\ project.elements[i].id >= 4
          /\ project.elements[i].type \in {"line", "rectangle", "circle"}
    /\ Len(history) > 0

\* the indices of the elements whose hit test matches (x, y)
Matching(x, y) ==
    {i \in DOMAIN project.elements : isMatch(x, y, project.elements[i])}

\* the last element of the list among those at the indices of a non-empty set
Topmost(indices) ==
    project.elements[CHOOSE i \in indices : \A j \in indices : j <= i]

\* C7: findElementAt returns the topmost of the unlocked elements that match
\* the point; when no unlocked element matches, the topmost matching locked
\* element; and none exactly when no element matches.
C7_TopmostUnlockedFirst ==
    probe # None /\ Has(probe[1], "found") =>
        LET matches == Matching(probe[1].x, probe[1].y)
            unlocked == {i \in matches : ~Locked(project.elements[i])}
        IN /\ unlocked # {} => probe[1].found = Topmost(unlocked)
           /\ (unlocked = {} /\ matches # {}) => probe[1].found = Topmost(matches)
           /\ (probe[1].found = NoElement) <=> (matches = {})

\* C7: the query returned an unlocked element that lies below a locked element
\* which also matches the point
C7_UnlockedBelowLocked ==
    /\ probe # None /\ Has(probe[1], "found")
    /\ probe[1].found # NoElement /\ ~Locked(probe[1].found)
    /\ \E i, j \in Matching(probe[1].x, probe[1].y) :
          /\ i < j
          /\ project.elements[i] = probe[1].found
          /\ Locked(project.elements[j])

\* the candidate segments of the snap: every Line and the four sides of every
\* Rectangle, each with its attachment reference
SnapCandidates ==
    {Merge([x |-> el.x, y |-> el.y, endX |-> el.endX, endY |-> el.endY],
           [ref |-> [attachedToLine |-> el.id]]) :
        el \in {e \in SeqToSet(project.elements) : e.type = "line"}}
    \cup
    {Merge([x |-> RectangleSides(el)[k].x, y |-> RectangleSides(el)[k].y,
            endX |-> RectangleSides(el)[k].endX, endY |-> RectangleSides(el)[k].endY],
           [ref |-> [attachedToRectangle |-> el.id,
                     attachmentSide |-> RectangleSides(el)[k].side]]) :
        el \in {e \in SeqToSet(project.elements) : e.type = "rectangle"}, k \in 1..4}

SegmentDistance(p, c) == pointToLineDistance(p.x, p.y, c.x, c.y, c.endX, c.endY)

\* c is a nearest candidate to p
IsNearest(p, c) ==
    \A d \in SnapCandidates : RatLe(SegmentDistance(p, c), SegmentDistance(p, d))

\* n is the snap of p onto the candidate c: a point within the extent of c at
\* the distance of c from p, the angle of c, that distance and the reference
SnappedOnto(p, n, c) ==
    /\ Min(c.x, c.endX) <= n.x /\ n.x <= Max(c.x, c.endX)
    /\ Min(c.y, c.endY) <= n.y /\ n.y <= Max(c.y, c.endY)
    /\ (n.x - c.x) * (c.endY - c.y) = (n.y - c.y) * (c.endX - c.x)
    /\ RatEq(<<(p.x - n.x) * (p.x - n.x) + (p.y - n.y) * (p.y - n.y), 1>>,
             SegmentDistance(p, c))
    /\ n.rotation = Atan2(Sign(c.endY - c.y), Sign(c.endX - c.x))
    /\ RatEq(n.distance, SegmentDistance(p, c))
    /\ [k \in DOMAIN n \ {"x", "y", "rotation", "distance"} |-> n[k]] = c.ref

\* C8: over every Line and the four sides of every Rectangle, when the least
\* point-to-segment distance is below 30/scale the result is the closest point
\* of a nearest segment, within its finite extent, with the segment's angle,
\* that distance and the attachment reference; otherwise it is the input point
\* with rotation 0, distance Infinity and no attachment.
C8_NearestWithinThreshold ==
    probe # None /\ Has(probe[1], "nearest") =>
        LET p == probe[1].point
            n == probe[1].nearest
            inReach == \E c \in SnapCandidates :
                          RatLt(SegmentDistance(p, c),
                                <<30 * 30, ScaleN * ScaleN>>)
        IN IF inReach
           THEN \E c \in SnapCandidates : IsNearest(p, c) /\ SnappedOnto(p, n, c)
           ELSE n = [x |-> p.x, y |-> p.y, rotation |-> 0, distance |-> <<1, 0>>]

\* C8: a query beyond the end of a wall snapped to the wall's end point
C8_ClampedToEnd ==
    /\ probe # None /\ Has(probe[1], "nearest")
    /\ Has(probe[1].nearest, "attachedToLine")
    /\ probe[1].nearest.attachedToLine = 1
    /\ probe[1].point.x > 100
    /\ probe[1].nearest.x = 100 /\ probe[1].nearest.y = 0

\* the history is as it was
HistoryKept == history' = history /\ historyIndex' = historyIndex

\* one entry was appended after the entries up to historyIndex, and it is current
OneCheckpoint ==
    /\ Len(history') = Min(historyIndex + 1, Len(history)) + 1
    /\ SubSeq(history', 1, Len(history') - 1)
          = SubSeq(history, 1, Min(historyIndex + 1, Len(history)))
    /\ historyIndex' = Len(history') - 1

\* the move is handled by the Rotating, Scaling or Dragging branch
ManipulatingMove ==
    /\ ~isPanning
    /\ \/ isRotating /\ Len(selectedElementIds) = 1
       \/ isScaling /\ scaleHandle # "" /\ Len(selectedElementIds) = 1
       \/ isDragging /\ Len(selectedElementIds) > 0 /\ dragReferenceId # NoId

\* C11: a pointer-move of Dragging, Rotating or Scaling adds no history entry
\* (its updates skip the history), and neither does the press that starts the
\* gesture; the release of the gesture records exactly one checkpoint; the
\* release of Panning, PotentialSelect or BoxSelecting records none.
C11_CheckpointAtRelease ==
    [][/\ (\E p \in Points : MouseMove(p) /\ ManipulatingMove) => HistoryKept
       /\ (\E press \in Presses : MouseDown(press) /\ tool = "select") => HistoryKept
       /\ (ReleaseStep /\ ~isPanning /\ (isRotating \/ isScaling \/ isDragging))
             => OneCheckpoint
       /\ (ReleaseStep /\ (isPanning \/ (~isRotating /\ ~isScaling /\ ~isDragging
                                           /\ (potentialSelection \/ isSelecting))))
             => HistoryKept]_vars

\* C11: rectangle 1 was selected by a click and then dragged away by a second
\* gesture with moves; the two releases left two checkpoints
C11_DraggedAndReleased ==
    /\ Idle /\ buttons = {}
    /\ Len(history) = 2 /\ historyIndex = 1
    /\ FindById(1) # NoElement
    /\ <<FindById(1).x, FindById(1).y>> # <<InitialElements[1].x, InitialElements[1].y>>
    /\ Rotation(FindById(1)) = 0 /\ FindById(1).width = InitialElements[1].width

\* the view scale lies in [0.1, 5.0]
ScaleInRange == ScaleN * 10 >= ScaleD /\ ScaleN <= 5 * ScaleD

\* the view scale after the step is the rational r
ScaleBecomes(r) == viewTransform'.scaleN * r[2] = r[1] * viewTransform'.scaleD

\* the scale times 0.9 when deltaY > 0, times 1.1 otherwise
WheelScaled(deltaY) ==
    IF deltaY > 0 THEN <<ScaleN * 9, ScaleD * 10>> ELSE <<ScaleN * 11, ScaleD * 10>>

\* C12: the view scale stays within [0.1, 5.0]: a wheel event multiplies it by
\* 0.9 when deltaY > 0 and by 1.1 otherwise and clamps the product; a pan
\* changes only the offset, by the raw screen delta of the pointer, and the
\* pan press and its release change nothing of the view.
C12_ScaleClamped ==
    /\ []ScaleInRange
    /\ [][/\ \A deltaY \in WheelDeltas :
                Wheel(deltaY) =>
                   LET raw == WheelScaled(deltaY)
                   IN IF raw[1] * 10 < raw[2] THEN ScaleBecomes(<<1, 10>>)
                      ELSE IF raw[1] > 5 * raw[2] THEN ScaleBecomes(<<5, 1>>)
                      ELSE ScaleBecomes(raw)
          /\ \A p \in ViewPoints :
                (MouseMove(p) /\ isPanning) =>
                   /\ viewTransform'.scaleN = ScaleN /\ viewTransform'.scaleD = ScaleD
                   /\ viewTransform'.offsetX = viewTransform.offsetX + (p.x - mouse.x)
                   /\ viewTransform'.offsetY = viewTransform.offsetY + (p.y - mouse.y)
          /\ ((\E press \in PanPresses : MouseDown(press)) \/ ReleaseStep)
                => viewTransform' = viewTransform]_vars

\* C12: a wheel event clamped the scale at 0.1 and moved the offset, and a pan
\* under way has moved the offset further
C12_ClampedThenPanned ==
    /\ isPanning
    /\ ScaleD = 10 * ScaleN
    /\ project.viewTransform.scaleD = 10 * project.viewTransform.scaleN
    /\ project.viewTransform.offsetX # 0
    /\ <<viewTransform.offsetX, viewTransform.offsetY>>
          # <<project.viewTransform.offsetX, project.viewTransform.offsetY>>

\* the world point under the screen point m is the same before and after
SameWorldPoint(m) ==
    LET \* the new scale over the old one, in lowest terms
        r == Reduced(<<viewTransform'.scaleN * ScaleD, viewTransform'.scaleD * ScaleN>>)
    IN /\ (m.x - viewTransform.offsetX) * r[1] = (m.x - viewTransform'.offsetX) * r[2]
       /\ (m.y - viewTransform.offsetY) * r[1] = (m.y - viewTransform'.offsetY) * r[2]

\* C13: for every wheel event the world point under the cursor,
\* (cursor - offset) / scale, is the same after the zoom as before it, also
\* when the new scale is clamped at 0.1 or at 5.0.
C13_ZoomKeepsCursorPoint ==
    [][\A deltaY \in WheelDeltas : Wheel(deltaY) => SameWorldPoint(mouse)]_vars

\* C13: one wheel event at (49, 98) took the scale from 4.9 to the limit 5.0
\* and the offset from (0, 0) to (-1, -2)
C13_ClampedZoomIn ==
    /\ events = 1 /\ buttons = {}
    /\ ScaleN = 5 /\ ScaleD = 1
    /\ mouse.x = 49 /\ mouse.y = 98
    /\ viewTransform.offsetX = -1 /\ viewTransform.offsetY = -2

\* the step is the pointer-move to the canvas point p of a drag of the selected
\* door alone: the door is the reference and the only entry of the snapshot
SoleDoorDrag(p) ==
    /\ MouseMove(DoorScreen(p)) /\ DragBranch
    /\ selectedElementIds = <<3>>
    /\ dragReferenceId = 3
    /\ DOMAIN elementStartPositions = {3}
    /\ FindById(3) # NoElement /\ FindById(3).type = "door"

\* the keys of a door that name what it is attached to
AttachmentOf(door) ==
    [k \in DOMAIN door \cap {"attachedToLine", "attachedToRectangle", "attachmentSide"} |->
        door[k]]

\* the segments of existing Lines and Rectangle sides the door is attached to
AttachedSegments(door) == {c \in SnapCandidates : c.ref = AttachmentOf(door)}

\* the door lies at the point of the segment c closest to p, with the angle of c
SlidOnto(p, door, c) ==
    /\ Min(c.x, c.endX) <= door.x /\ door.x <= Max(c.x, c.endX)
    /\ Min(c.y, c.endY) <= door.y /\ door.y <= Max(c.y, c.endY)
    /\ (door.x - c.x) * (c.endY - c.y) = (door.y - c.y) * (c.endX - c.x)
    /\ RatEq(<<(p.x - door.x) * (p.x - door.x) + (p.y - door.y) * (p.y - door.y), 1>>,
             SegmentDistance(p, c))
    /\ Rotation(door) = Atan2(Sign(c.endY - c.y), Sign(c.endX - c.x))

\* C14: while a sole-selected Door attached to an existing Line or side of an
\* existing Rectangle is dragged, every pointer-move leaves it at the point of
\* that segment closest to the pointer (the projection clamped between the end
\* points, so on the segment) with the segment's angle as its rotation.
C14_AttachedDoorSlides ==
    [][\A p \in DoorPoints :
          SoleDoorDrag(p) =>
              \A c \in AttachedSegments(FindById(3)) :
                  SlidOnto(p, SameElementIn(project', [id |-> 3]), c)]_vars

\* C14: a pointer-move of the drag of a door attached to a Line of length 0
\* left the door with the coordinates NaN, NaN
C14_DoorAtNaN ==
    /\ isDragging /\ dragReferenceId = 3
    /\ FindById(3).x = NaN /\ FindById(3).y = NaN
    /\ \E c \in AttachedSegments(FindById(3)) : c.x = c.endX /\ c.y = c.endY

\* on segments of positive length the door does slide as described
SlidesOnProperSegment ==
    [][\A p \in DoorPoints :
          SoleDoorDrag(p) =>
              \A c \in AttachedSegments(FindById(3)) :
                  (c.x # c.endX \/ c.y # c.endY) =>
                      SlidOnto(p, SameElementIn(project', [id |-> 3]), c)]_vars

\* a drag of a door attached to a wall of positive length took the door to the
\* end of the wall
DraggedToWallEnd ==
    /\ isDragging /\ dragReferenceId = 3 /\ DOMAIN elementStartPositions = {3}
    /\ FindById(3).x = 100 /\ FindById(3).y = 0 /\ mouse.y # 0
    /\ \E c \in AttachedSegments(FindById(3)) : c.endX = 100

\* some Line or Rectangle side is nearer to p than the snap threshold 30/scale
WithinSnapReach(p) ==
    \E c \in SnapCandidates :
        RatLt(SegmentDistance(p, c), <<30 * 30, ScaleN * ScaleN>>)

\* the move to p leaves the door as the nearest-segment search places it:
\* snapped within the threshold, otherwise at its snapshot position plus the
\* pointer delta with the rotation it had at the pointer-down
DraggedAsUnattached(p) ==
    LET door == SameElementIn(project', [id |-> 3])
        startPos == elementStartPositions[3]
    IN IF WithinSnapReach(p)
       THEN \E c \in SnapCandidates : IsNearest(p, c) /\ SlidOnto(p, door, c)
       ELSE /\ door.x = startPos.x + (p.x - dragStart.x)
            /\ door.y = startPos.y + (p.y - dragStart.y)
            /\ Some(Rotation(door)) = doorOriginalRotation

\* C15: while a sole-selected unattached Door is dragged, every pointer-move
\* searches the nearest segment anew: within 30/scale of one, the door lies at
\* the closest point of a nearest segment with that segment's angle; otherwise
\* it lies at its snapshot position plus the pointer delta with the rotation it
\* had at the pointer-down, which the moves do not change.
C15_UnattachedDoorSnaps ==
    [][/\ (MouseDown(LeftPress) /\ HitsUnlocked(LeftPress)
              /\ findElementAt(PointerPoint.x, PointerPoint.y).id = 3)
            => doorOriginalRotation' = Some(Rotation(FindById(3)))
       /\ \A p \in DoorPoints :
            (SoleDoorDrag(p) /\ AttachmentOf(FindById(3)) = <<>>) =>
                /\ doorOriginalRotation' = doorOriginalRotation
                /\ DraggedAsUnattached(p)
      ]_vars

\* C15: the unattached door, whose rotation was a half turn at the press, was
\* snapped by the first move of the drag and taken out of reach of every
\* segment by the second, which gave it the half turn again
C15_SnappedThenFreed ==
    /\ isDragging /\ dragReferenceId = 3 /\ DOMAIN elementStartPositions = {3}
    /\ ScaleN = 1 /\ events = 3
    /\ AttachmentOf(FindById(3)) = <<>>
    /\ mouse.x = 30 /\ mouse.y = 40
    /\ FindById(3).x = 40 /\ FindById(3).y = 40 /\ Rotation(FindById(3)) = 2

\* the door, dragged alone, lies snapped onto the segment c, a nearest one to
\* the pointer and within the threshold of it
SnappedAtPointer(c) ==
    /\ isDragging /\ ~isPanning /\ ~isRotating /\ ~isScaling
    /\ selectedElementIds = <<3>>
    /\ dragReferenceId = 3 /\ DOMAIN elementStartPositions = {3}
    /\ FindById(3) # NoElement
    /\ WithinSnapReach(PointerPoint)
    /\ IsNearest(PointerPoint, c)
    /\ SlidOnto(PointerPoint, FindById(3), c)

\* C16: when an unattached Door is dragged and released while snapped to a Line
\* or Rectangle side, the release leaves its attachment reference (line id, or
\* rectangle id and side) set to that segment, as the door tool does for a door
\* placed at the same point.
C16_ReleaseAttaches ==
    [][\A c \in SnapCandidates :
          (ReleaseStep /\ AttachmentOf(FindById(3)) = <<>> /\ SnappedAtPointer(c)) =>
              \E d \in SnapCandidates :
                  /\ IsNearest(PointerPoint, d)
                  /\ AttachmentOf(SameElementIn(project', [id |-> 3])) = d.ref]_vars

\* C16: the unattached door was dragged onto the wall and released there, and
\* has no attachment reference
C16_ReleasedUnattached ==
    /\ Idle /\ buttons = {} /\ Len(history) = 1
    /\ FindById(3).x = 30 /\ FindById(3).y = 0 /\ Rotation(FindById(3)) = 0
    /\ PointerPoint = [x |-> 30, y |-> 10]
    /\ AttachmentOf(FindById(3)) = <<>>

\* the door names an attachment that is no Line or Rectangle side of the canvas
Dangling(door) == AttachmentOf(door) # <<>> /\ AttachedSegments(door) = {}

\* C17: a Door whose attachedToLine or attachedToRectangle names an element that
\* is gone or of the other kind is dragged, as the sole selected element, as a
\* door with no attachment is: every move searches the nearest segment, snaps
\* within the threshold and positions freely beyond it.
C17_DanglingAsUnattached ==
    [][\A p \in DoorPoints :
          (SoleDoorDrag(p) /\ Dangling(FindById(3))) => DraggedAsUnattached(p)]_vars

\* C17: the door with a dangling reference was dragged to 10px from the wall
\* and lies at its snapshot position plus the pointer delta, not on the wall
C17_DanglingNotSnapped ==
    /\ isDragging /\ dragReferenceId = 3 /\ DOMAIN elementStartPositions = {3}
    /\ Dangling(FindById(3))
    /\ PointerPoint = [x |-> 30, y |-> 10]
    /\ WithinSnapReach(PointerPoint)
    /\ FindById(3).x = 40 /\ FindById(3).y = 10 /\ Rotation(FindById(3)) = 2

\* a door with a dangling reference is positioned freely by every move of its
\* drag: snapshot position plus pointer delta, rotation unchanged
DanglingMovesFreely ==
    [][\A p \in DoorPoints :
          (SoleDoorDrag(p) /\ Dangling(FindById(3))) =>
              LET door == SameElementIn(project', [id |-> 3])
              IN /\ door.x = elementStartPositions[3].x + (p.x - dragStart.x)
                 /\ door.y = elementStartPositions[3].y + (p.y - dragStart.y)
                 /\ Rotation(door) = Rotation(FindById(3))
                 /\ AttachmentOf(door) = AttachmentOf(FindById(3))]_vars

\* the elements, and the history with them, are as before the step
ElementsKept == project' = project /\ HistoryKept

\* C18: Escape with the settings open closes them and leaves the selection and
\* the tool as they are; Escape with the settings closed empties the selection
\* and makes select the tool; neither adds, changes or deletes an element.
C18_Escape ==
    [][\A e \in ShortcutEvents :
          (Key(e) /\ e.key = "Escape") =>
              /\ ElementsKept
              /\ ~showSettings'
              /\ IF showSettings
                 THEN selectedElementIds' = selectedElementIds /\ tool' = tool
                 ELSE selectedElementIds' = <<>> /\ tool' = "select"]_vars

\* C18: with a drawing tool chosen, elements selected and the settings opened,
\* Escape, the last key pressed, closed the settings and left tool and selection
C18_ClosedSettingsOnly ==
    /\ events = 3
    /\ probe # None /\ probe[1].key = "Escape"
    /\ ~showSettings
    /\ tool = "line"
    /\ selectedElementIds = <<1, 3>>
    /\ project.elements = KeyScene

\* the shortcuts that are disabled while a text-input widget has the focus
IsShortcut(e) ==
    \/ e.key \in {"Delete", "Backspace"}
    \/ e.ctrlKey /\ e.key \in {"a", "c", "v", "d"}
    \/ IsArrow(e.key)
    \/ ~e.ctrlKey /\ ~e.altKey /\ e.key = "x"

\* C19: a Delete, Backspace, select-all, copy, paste, duplicate, arrow or
\* character key whose target is an input or a textarea changes neither the
\* selection, nor the copy buffer, nor any element.
C19_InputFieldKeys ==
    [][\A e \in ShortcutEvents :
          (Key(e) /\ IsShortcut(e) /\ e.target \in {"INPUT", "TEXTAREA"}) =>
              /\ selectedElementIds' = selectedElementIds
              /\ copiedElements' = copiedElements
              /\ ElementsKept]_vars

\* C19: with the text selected and a copy in the buffer, a character key, a
\* Delete, and last a paste arrived from a textarea and changed nothing
C19_TypedInTextarea ==
    /\ events = 3
    /\ probe # None /\ probe[1].key = "v" /\ probe[1].target = "TEXTAREA"
    /\ selectedElementIds = <<2>>
    /\ copiedElements = <<KeyScene[1]>>
    /\ project.elements = KeyScene
    /\ history = <<>>

\* the offset d turned by q quarter turns
TurnedOffset(d, q) ==
    CASE q % 4 = 0 -> d
      [] q % 4 = 1 -> <<-d[2], d[1]>>
      [] q % 4 = 2 -> <<-d[1], -d[2]>>
      [] q % 4 = 3 -> <<d[2], -d[1]>>

\* the point c / k lies inside the box, its border included
InsideBox(c, k, box) ==
    /\ k * box.x <= c[1] /\ c[1] <= k * (box.x + box.width)
    /\ k * box.y <= c[2] /\ c[2] <= k * (box.y + box.height)

\* the per-kind rule of box selection
SelectedByRule(el, box) ==
    CASE el.type = "line" ->
           InsideBox(<<el.x, el.y>>, 1, box) \/ InsideBox(<<el.endX, el.endY>>, 1, box)
      [] el.type = "rectangle" ->
           \* the corners, doubled, are the centre plus the turned half diagonals
           \E sx, sy \in {-1, 1} :
               LET d == TurnedOffset(<<sx * el.width, sy * el.height>>, Rotation(el))
               IN InsideBox(<<2 * el.x + el.width + d[1], 2 * el.y + el.height + d[2]>>,
                            2, box)
      [] el.type = "text" ->
           \* the corners, times 5*scale, of the text's box of height fontSize/scale
           \* and width 0.6*fontSize/scale per character, turned about its anchor
           \E dx \in {0, 3 * Len(el.content) * el.fontSize * ScaleD},
              dy \in {-(5 * el.fontSize * ScaleD), 0} :
               LET d == TurnedOffset(<<dx, dy>>, Rotation(el))
               IN InsideBox(<<5 * ScaleN * el.x + d[1], 5 * ScaleN * el.y + d[2]>>,
                            5 * ScaleN, box)
      [] el.type = "circle" ->
           /\ el.x - el.radius < box.x + box.width /\ box.x < el.x + el.radius
           /\ el.y - el.radius < box.y + box.height /\ box.y < el.y + el.radius
      [] el.type = "door" ->
           LET latch == TurnedOffset(<<el.width, 0>>, Rotation(el))
           IN \/ InsideBox(<<el.x, el.y>>, 1, box)
              \/ InsideBox(<<el.x + latch[1], el.y + latch[2]>>, 1, box)
      [] OTHER -> FALSE

\* the ids, in canvas order, of the elements the rule selects
IdsByRule(box) ==
    LET chosen == SelectSeq(project.elements, LAMBDA el : SelectedByRule(el, box))
    IN [i \in DOMAIN chosen |-> chosen[i].id]

\* the box spanned by the point of the press and the pointer
SpannedBox ==
    [x |-> Min(drawStart.x, PointerPoint.x), y |-> Min(drawStart.y, PointerPoint.y),
     width |-> Abs(PointerPoint.x - drawStart.x),
     height |-> Abs(PointerPoint.y - drawStart.y)]

\* the release ends a BoxSelecting gesture
BoxRelease ==
    /\ ReleaseStep
    /\ ~isPanning /\ ~isRotating /\ ~isScaling /\ ~isDragging /\ ~potentialSelection
    /\ isSelecting

\* C20: the release of a BoxSelecting gesture makes the selection exactly the
\* elements the per-kind rule selects for the box between the press and the
\* pointer: a Line by an endpoint inside, a Rectangle or Text by one of its four
\* rotated corners inside, a Circle by its bounding square intersecting the
\* box, a Door by its hinge or latch end inside.
C20_BoxSelection ==
    [][BoxRelease => selectedElementIds' = IdsByRule(SpannedBox)]_vars

\* C20: a BoxSelecting gesture of one move was released over a box that holds
\* corners of rectangle 2, and nothing is selected
C20_NothingSelected ==
    /\ buttons = {} /\ events = 3
    /\ isSelecting /\ selectionBox = None
    /\ selectedElementIds = <<>>
    /\ 2 \in SeqToSet(IdsByRule(SpannedBox))

\* when the gesture had two moves or more, the box is tracked and the release
\* selects by the rule
BoxRuleWhenTracked ==
    [][(BoxRelease /\ selectionBox # None) =>
          /\ selectionBox[1] = SpannedBox
          /\ selectedElementIds' = IdsByRule(SpannedBox)]_vars

\* a tracked box crosses the left edge of rectangle 3, which is turned a quarter,
\* and holds none of its turned corners (it holds a corner the rectangle would
\* have unturned): the rule selects nothing
EdgeCrossedOnly ==
    /\ isSelecting /\ selectionBox # None
    /\ selectionBox[1] = [x |-> 45, y |-> 55, width |-> 30, height |-> 20]
    /\ \E i \in DOMAIN project.elements :
          /\ project.elements[i].id = 3 /\ project.elements[i].type = "rectangle"
          /\ InsideBox(<<project.elements[i].x, project.elements[i].y>>, 1, selectionBox[1])
    /\ IdsByRule(selectionBox[1]) = <<>>

\* the press reaches the hit test of the select tool and hits an element
HitsElement(press) ==
    /\ tool = "select"
    /\ ~(press.button \in {1, 2} \/ press.altKey)
    /\ ~OnRotationHandle(PointerPoint)
    /\ ~OnScaleHandle(PointerPoint)
    /\ findElementAt(PointerPoint.x, PointerPoint.y) # NoElement

\* the selection holds no id twice
NoDuplicateIds ==
    \A i, j \in DOMAIN selectedElementIds :
        selectedElementIds[i] = selectedElementIds[j] => i = j

\* the ids of the selection other than id are the same, in the same order,
\* before and after the step
OthersKept(id) ==
    SelectSeq(selectedElementIds', LAMBDA k : k # id)
        = SelectSeq(selectedElementIds, LAMBDA k : k # id)

\* C21 as stated: a select-tool press that hits an element makes the selection
\* exactly that element when shift is not held, and toggles its membership,
\* the other members kept, when shift is held; no id is selected twice.
C21_ClickReplaces ==
    /\ []NoDuplicateIds
    /\ [][\A press \in Presses :
            (MouseDown(press) /\ HitsElement(press)) =>
                LET id == findElementAt(PointerPoint.x, PointerPoint.y).id
                IN IF press.shiftKey
                   THEN /\ Includes(selectedElementIds', id)
                             = ~Includes(selectedElementIds, id)
                        /\ OthersKept(id)
                   ELSE selectedElementIds' = <<id>>]_vars

\* C21, amended: without shift the selection becomes exactly the element hit
\* when it was not selected, and is left as it is when the element hit was
\* already a member; with shift its membership is toggled and the other
\* members are kept; no id is selected twice.
C21_ClickSelects ==
    /\ []NoDuplicateIds
    /\ [][\A press \in Presses :
            (MouseDown(press) /\ HitsElement(press)) =>
                LET id == findElementAt(PointerPoint.x, PointerPoint.y).id
                IN IF press.shiftKey
                   THEN /\ Includes(selectedElementIds', id)
                             = ~Includes(selectedElementIds, id)
                        /\ OthersKept(id)
                   ELSE IF Includes(selectedElementIds, id)
                        THEN selectedElementIds' = selectedElementIds
                        ELSE selectedElementIds' = <<id>>]_vars

\* C21: a press without shift on the first of two selected elements started a
\* drag of both and left both selected
C21_MemberPressedKept ==
    /\ isDragging /\ 0 \in buttons
    /\ Len(selectedElementIds) = 2
    /\ dragReferenceId = selectedElementIds[1]
    /\ DOMAIN elementStartPositions = SeqToSet(selectedElementIds)

\* the project read back from the file is there
ReadBack == probe # None /\ Has(probe[1], "imported")

\* C22: importProject(exportProject(p)) has the element sequence of p, element
\* for element and field for field, no field recomputed or replaced.
C22_RoundTrip == ReadBack => probe[1].imported.elements = project.elements

\* C22: a line whose stroke width is NaN (the panel's stroke width field was
\* emptied) was exported and read back with the stroke width null
C22_NaNReadBackNull ==
    /\ ReadBack
    /\ project.elements[1].type = "line"
    /\ project.elements[1].strokeWidth = NaN
    /\ probe[1].imported.elements[1].strokeWidth = Null

\* no number of the elements is NaN
AllNumbers ==
    \A i \in DOMAIN project.elements :
        \A k \in DOMAIN project.elements[i] \cap NumberFields :
            project.elements[i][k] # NaN

\* a project whose element numbers are all numbers is read back whole: every
\* field of the project, its elements among them, has its value in the project
\* read back
RoundTripOfNumbers ==
    (ReadBack /\ AllNumbers) => probe[1].imported = Merge(probe[1].imported, project)

\* an attached door, a transparent locked rectangle with a label and a circle
\* with opacity 0 were read back
ReadBackStyled ==
    /\ ReadBack /\ AllNumbers
    /\ \E i \in DOMAIN project.elements :
          Has(project.elements[i], "attachmentSide")
    /\ \E i \in DOMAIN project.elements :
          Has(project.elements[i], "opacity") /\ project.elements[i].opacity = 0

-----------------------------------------------------------------------------
(* C23: auto-save of the project list *)

\* the project list held in local storage ([] when there is no item)
StoredList == IF localStorage.projects = None THEN <<>> ELSE localStorage.projects[1]

\* C23: after every change to the in-memory project list (create, delete,
\* rename, element add / update / delete) the project list held in local
\* storage equals the in-memory project list.
C23_AutoSaved == StoredList = stringifyList(projects)

\* the last project was deleted and local storage still holds it
C23_DeletedProjectStored == Len(projects) = 0 /\ Len(StoredList) > 0

\* C23, second half: a reload shows exactly the projects that existed before it
C23_ReloadShowsSame == [][Reload => projects' = loadProjects(saveProjects(projects))]_vars

\* a list that is not empty is in local storage as it is in memory
SavedWhenNotEmpty == Len(projects) > 0 => StoredList = stringifyList(projects)

\* a project with an edited element is in memory and in local storage
EditedProjectStored ==
    /\ Len(projects) > 0
    /\ Len(projects[1].elements) > 0
    /\ projects[1].elements[1].x = 5
    /\ StoredList = stringifyList(projects)

-----------------------------------------------------------------------------
(* C24: the numeric fields of the properties panel *)

\* the numeric fields of the elements and of the project are numbers
NumbersOf(object) == {object[k] : k \in DOMAIN object \cap NumberFields}

\* C24: no numeric field of an element or of the project ever becomes a
\* non-number through a property edit (an edit that leaves non-numeric or empty
\* text in a numeric field emits no update and the prior value is retained).
C24_NumericFieldsStayNumbers ==
    /\ NaN \notin NumbersOf(project)
    /\ \A i \in DOMAIN project.elements : NaN \notin NumbersOf(project.elements[i])

\* the stroke width of the selected element is NaN
C24_StrokeWidthNaN ==
    /\ Len(SelectedElements) = 1
    /\ SelectedElements[1].strokeWidth = NaN

\* the fields edited through a NumericInput (position, end point, size, radius,
\* rotation) stay numbers, and a blur on a text that is no number changes
\* neither the project nor the history
NumericInputRejects ==
    /\ [](\A i \in DOMAIN project.elements :
            \A k \in DOMAIN project.elements[i]
                       \cap (NumberFields \ {"strokeWidth", "fontSize"}) :
                project.elements[i][k] # NaN)
    /\ [][(Blur /\ isNaN(parseFloat(probe[1].editValue)))
            => (project' = project /\ history' = history /\ historyIndex' = historyIndex)]_vars

\* a blur on a number has updated the field
BlurredOnNumber ==
    /\ probe = None
    /\ Len(SelectedElements) = 1
    /\ SelectedElements[1].x = 25

\* the label font size of the project is NaN
LabelFontSizeNaN == project.labelFontSize = NaN

-----------------------------------------------------------------------------
(* C25: the intents of the moves of a gesture, applied one by one or only the  *)
(* last.  Each move is handled and applied; probe holds, for every point q,    *)
(* what the handler of the render before the move emits for a move to q: the   *)
(* intent of the next move when the intent of this one is not yet applied as   *)
(* it is handled (the handler closes over the project, and over the            *)
(* controller's own state, of the last render), and then the only one applied. *)

\* the number of events of a run that follows the gestures move by move
MaxGestureEvents == 6

\* the points of the canvas of Init, and two about the east handles of the text
\* of KeyScene
GesturePoints == Points \cup {[x |-> 100, y |-> 10], [x |-> 80, y |-> 10]}

\* the canvas of Init with nothing selected, or that of KeyScene with its text
\* selected
InitGesture ==
    /\ \/ /\ project = [elements |-> InitialElements, pixelsPerCm |-> PixelsPerCmDefault]
          /\ selectedElementIds = <<>>
       \/ /\ project = [elements |-> KeyScene, pixelsPerCm |-> PixelsPerCmDefault]
          /\ selectedElementIds = <<2>>
    /\ probe = None
    /\ tool = "select"
    /\ history = <<>>
    /\ historyIndex = -1
    /\ viewTransform = [scaleN |-> 1, scaleD |-> 1, offsetX |-> 0, offsetY |-> 0]
    /\ InitSession
    /\ nextId = 4
    /\ buttons = {}
    /\ mouse = [x |-> 20, y |-> 60, inside |-> TRUE]
    /\ events = 0

\* handleMouseMove for a move to the screen point q
MoveTo(q) == handleMouseMove([clientX |-> q.x, clientY |-> q.y])

IsExact(u) == ~Has(u, "inexact")

InRotating == ~isPanning /\ isRotating /\ Len(selectedElementIds) = 1
InScaling == /\ ~isPanning /\ ~isRotating
             /\ isScaling /\ scaleHandle # "" /\ Len(selectedElementIds) = 1
InDragging == /\ ~isPanning /\ ~isRotating /\ ~isScaling
              /\ isDragging /\ Len(selectedElementIds) > 0 /\ dragReferenceId # NoId

\* onMouseMove, recording what its render emits for the move after it
TrackedMove(p) ==
    /\ ~mouse.inside \/ p.x # mouse.x \/ p.y # mouse.y
    /\ mouse' = [x |-> p.x, y |-> p.y, inside |-> TRUE]
    /\ Commit(MoveTo(p))
    /\ probe' = Some([at |-> events',
                      gesture |-> InRotating \/ InScaling \/ InDragging,
                      latest |-> [q \in GesturePoints |-> MoveTo(q)]])
    /\ UNCHANGED buttons

NextGesture ==
    \/ \E press \in Presses : Tick(MaxGestureEvents) /\ MouseDown(press)
    \/ \E p \in GesturePoints : Tick(MaxGestureEvents) /\ TrackedMove(p)
    \/ \E b \in buttons : Tick(MaxGestureEvents) /\ MouseUp(b)
    \/ Tick(MaxGestureEvents) /\ MouseLeave
    \/ \E t \in ToolButtons : Tick(MaxGestureEvents) /\ SetTool(t)

SpecGesture == InitGesture /\ [][NextGesture]_vars

\* the last event was a move of a Dragging, Rotating or Scaling gesture
MovedInGesture == probe # None /\ probe[1].at = events /\ probe[1].gesture

\* the elements after a next move to q are the same whether the intent of the
\* last move was applied before that move is handled or not
Coalesces(q) ==
    LET inOrder == MoveTo(q)
        latest == probe[1].latest[q]
    IN (IsExact(inOrder) /\ IsExact(latest))
          => Get(latest, "project", project) = Get(inOrder, "project", project)

\* C25: the intents of a Dragging, Rotating or Scaling gesture overwrite each
\* other: when only the most recent intent is applied, the elements are as
\* when every intent is applied in order before the next move.
C25_LatestIntentSuffices == MovedInGesture => \A q \in GesturePoints : Coalesces(q)

\* a Scaling gesture has taken the font size of a text to its floor
C25_FontSizeAtFloor ==
    /\ MovedInGesture
    /\ InScaling
    /\ FindById(selectedElementIds[1]).type = "text"
    /\ FindById(selectedElementIds[1]).fontSize = MinFontSize

\* the element of the gesture is no text
NoTextInGesture ==
    FindById(IF Len(selectedElementIds) > 0 THEN selectedElementIds[1] ELSE NoId).type # "text"

\* the intents of the gestures on a rectangle or a line do overwrite each other
LatestIntentSufficesButText ==
    (MovedInGesture /\ NoTextInGesture) => \A q \in GesturePoints : Coalesces(q)

\* a Rotating gesture has turned the element away from the angle of the press
RotatedInGesture ==
    /\ MovedInGesture
    /\ InRotating
    /\ Rotation(FindById(selectedElementIds[1])) # 0

\* a Scaling gesture has resized the element
ScaledInGesture ==
    /\ MovedInGesture
    /\ InScaling
    /\ FindById(selectedElementIds[1]).type = "rectangle"
    /\ FindById(selectedElementIds[1]).width # 40

\* a Dragging gesture has moved the element
DraggedInGesture ==
    /\ MovedInGesture
    /\ InDragging
    /\ project.elements # InitialElements

-----------------------------------------------------------------------------
(* C26: the gesture modes *)

\* the gesture modes whose flag is set
ActiveModes ==
    {m \in {"Panning", "Rotating", "Scaling", "Dragging", "PotentialSelect", "BoxSelecting",
            "Drawing"} :
        CASE m = "Panning" -> isPanning
          [] m = "Rotating" -> isRotating
          [] m = "Scaling" -> isScaling
          [] m = "Dragging" -> isDragging
          [] m = "PotentialSelect" -> potentialSelection
          [] m = "BoxSelecting" -> isSelecting
          [] m = "Drawing" -> isDrawing}

\* C26: in every reachable state at most one gesture mode is active.
C26_OneModeAtMost == Cardinality(ActiveModes) <= 1

\* two gesture modes are active at once
C26_TwoModes == Cardinality(ActiveModes) = 2

\* the pairs of modes that are active together
PanningWhileRotating == isPanning /\ isRotating
PanningWhileDragging == isPanning /\ isDragging
ThreeModes == Cardinality(ActiveModes) >= 3

-----------------------------------------------------------------------------
(* C27: the history index *)

\* C27: in every reachable state -1 <= historyIndex <= history.length - 1, so
\* that undo and redo read an entry that exists.
C27_IndexWithinHistory == -1 <= historyIndex /\ historyIndex <= Len(history) - 1

\* the index is past the last entry of the history
C27_IndexPastHistory == historyIndex > Len(history) - 1

\* an undo would read history[historyIndex - 1] where there is no entry
UndoReadsNoEntry == historyIndex > 0 /\ historyIndex > Len(history)

\* the index is never below -1
IndexAtLeastMinusOne == historyIndex >= -1

-----------------------------------------------------------------------------
(* C28, C29: undo and redo right after a step *)

\* the step is an operation that records history and changes the project (an
\* element add, an update with history, a delete, a paste or a duplicate)
RecordingEdit == history' # history /\ project' # project

\* the step is an undo that changes the project
UndoStep ==
    /\ history' = history /\ historyIndex' = historyIndex - 1
    /\ project' # project

\* the project an undo (a redo) right after the step shows
ProjectAfterUndo == Get(undo', "project", project')
ProjectAfterRedo == Get(redo', "project", project')

\* C28: after an element add, a history-recording update or a delete, an undo
\* that follows immediately restores the project to exactly the state just
\* before that operation, from the very first operation onward.
C28_UndoRestores == [][RecordingEdit => ProjectAfterUndo = project]_vars

\* the first operation is recorded: one history entry, and the project differs
\* from it
C28_FirstEditRecorded ==
    /\ Len(history) = 1 /\ historyIndex = 0
    /\ project # history[1]

\* an undo right after a recording operation changes nothing or shows an entry
\* of the history
UndoShowsHistoryEntry ==
    [][RecordingEdit =>
          \/ ProjectAfterUndo = project'
          \/ \E i \in 1..Len(history') : ProjectAfterUndo = history'[i]]_vars

\* C29: an undo that changes the project, immediately followed by a redo,
\* leaves the project as it was before the undo; an edit after an undo discards
\* the redo branch, so that a redo after it is a no-op.
C29_RedoRestores ==
    [][/\ UndoStep => ProjectAfterRedo = project
       /\ RecordingEdit => redo' = NoUpdate]_vars

\* an undo has changed the project: the index is below the last entry
C29_Undone ==
    /\ historyIndex >= 0
    /\ historyIndex < Len(history) - 1
    /\ project = history[historyIndex + 1]

\* a redo right after a recording operation is a no-op
EditDiscardsRedo == [][RecordingEdit => redo' = NoUpdate]_vars

\* a redo right after an undo changes nothing or shows the history entry after
\* the one the undo showed
RedoShowsNextEntry ==
    [][UndoStep /\ redo' # NoUpdate => ProjectAfterRedo = history[historyIndex + 1]]_vars

-----------------------------------------------------------------------------
(* C30: the selection after undo and redo *)

\* the selected id refers to no element of the current project
Missing(id) == FindById(id) = NoElement

\* C30: every id in the selection refers to an element that exists in the
\* current project, after any sequence of click-select, box-select, select-all,
\* paste, duplicate, delete, undo and redo.
C30_SelectionExists ==
    \A i \in DOMAIN selectedElementIds : ~Missing(selectedElementIds[i])

\* an undo or a redo has replaced the project by a history entry, and a selected
\* id is not among its elements
C30_DanglingAfterUndo ==
    /\ historyIndex < Len(history) - 1
    /\ \E i \in DOMAIN selectedElementIds : Missing(selectedElementIds[i])

\* a step that keeps the project keeps or replaces the selection by ids of
\* existing elements, when the selection was sound before
SelectingKeepsSound ==
    [][C30_SelectionExists /\ project' = project => C30_SelectionExists']_vars

\* a step other than an undo or a redo leaves a sound selection sound
EditKeepsSound ==
    [][C30_SelectionExists /\ (history' # history \/ historyIndex' = historyIndex)
          => C30_SelectionExists']_vars

-----------------------------------------------------------------------------
(* App: importing a project file.  importProject starts a FileReader whose    *)
(* onload callback is the closure of the render that started it.              *)

\* the number of events a run with imports delivers
MaxImportEvents == 5
\* the largest number of file reads in flight
MaxReading == 1

\* the files chosen: an exported project with one element, and a file that is
\* no JSON
ImportFiles ==
    { Some(exportProject([id |-> 9, name |-> <<"Imported">>, createdAt |-> [time |-> 0],
                          updatedAt |-> [time |-> 0], elements |-> <<StoreElement(9)>>,
                          pixelsPerCm |-> 10, labelFontSize |-> 12])),
      None }

\* importProject(file): reader.readAsText(file); the callback keeps the
\* projects of this render
importProjectFile(file) ==
    [reading |-> Append(reading, [file |-> file, projects |-> projects])]

\* reader.onload of the read given: setProjects([...projects, importedProject])
\* with the projects the callback has kept; JSON.parse throws on a file that is
\* no JSON and the catch changes nothing
onload(read) ==
    IF read.file = None THEN NoUpdate
    ELSE [projects |-> Append(read.projects,
                              Merge(importProject(read.file[1]),
                                    [id |-> nextId, updatedAt |-> now])),
          nextId |-> nextId + 1]

\* the settings panel's file input
ImportStart ==
    /\ CanvasShown
    /\ Len(reading) < MaxReading
    /\ \E file \in ImportFiles :
          /\ events < MaxImportEvents
          /\ events' = events + 1
          /\ probe' = Some(Merge(probe[1], importProjectFile(file)))
          /\ UNCHANGED <<selectedElementIds, history, historyIndex, nextId>>
          /\ CanvasUnchanged

\* the file read completes: the callback runs, then the render and its effects
ImportLoad ==
    /\ reading # <<>>
    /\ LET u == onload(Head(reading))
           newProjects == Get(u, "projects", projects)
       IN /\ events < MaxImportEvents
          /\ events' = events + 1
          /\ probe' = Some([projects |-> newProjects,
                            currentProjectId |-> currentProjectId,
                            localStorage |->
                               [projects |-> IF Has(u, "projects") /\ Len(newProjects) > 0
                                             THEN saveProjects(newProjects)
                                             ELSE localStorage.projects,
                                currentProject |-> localStorage.currentProject],
                            reading |-> Tail(reading)])
          /\ nextId' = Get(u, "nextId", nextId)
          /\ UNCHANGED <<selectedElementIds, history, historyIndex>>
          /\ CanvasUnchanged

\* a project with a canvas open, as createProject leaves it
InitImport ==
    /\ probe = Some([projects |-> <<[id |-> 1, name |-> <<"Project", 1>>,
                                     createdAt |-> [time |-> 0], updatedAt |-> [time |-> 0],
                                     elements |-> <<>>, pixelsPerCm |-> 10,
                                     labelFontSize |-> 12]>>,
                     currentProjectId |-> 1,
                     localStorage |-> [projects |-> None, currentProject |-> 1],
                     reading |-> <<>>])
    /\ project = [elements |-> <<>>, pixelsPerCm |-> PixelsPerCmDefault]
    /\ selectedElementIds = <<>>
    /\ tool = "select"
    /\ history = <<>>
    /\ historyIndex = -1
    /\ viewTransform = [scaleN |-> 1, scaleD |-> 1, offsetX |-> 0, offsetY |-> 0]
    /\ InitSession
    /\ nextId = 2
    /\ buttons = {}
    /\ mouse = [x |-> 0, y |-> 0, inside |-> FALSE]
    /\ events = 0

NextImport ==
    \/ ImportStart
    \/ ImportLoad
    \/ CreateProject
    \/ DeleteProject
    \/ SelectProject
    \/ BackToProjects
    \/ AddElement
    \/ UpdateElement
    \/ DeleteElement

SpecImport == InitImport /\ [][NextImport]_vars

-----------------------------------------------------------------------------
(* C31: an import and the changes made while its file is read *)

\* the list after the step is the list before it with one project appended
OnlyAppends ==
    /\ Len(projects') = Len(projects) + 1
    /\ \A i \in DOMAIN projects : projects'[i] = projects[i]

\* C31: importing a project file only appends the imported project: any project
\* creation, deletion or element edit performed between the start of the import
\* and the completion of its file read is still present in the list afterwards.
C31_ImportOnlyAppends ==
    [][ImportLoad /\ Head(reading).file # None => OnlyAppends]_vars

\* a file read is in flight and the list has changed since it started
C31_ChangedWhileReading ==
    /\ reading # <<>>
    /\ Head(reading).file # None
    /\ Head(reading).projects # projects

\* the import appends to the list its callback has kept
ImportAppendsToKept ==
    [][ImportLoad /\ Head(reading).file # None =>
          /\ Len(projects') = Len(Head(reading).projects) + 1
          /\ \A i \in DOMAIN Head(reading).projects :
                projects'[i] = Head(reading).projects[i]]_vars

\* the import only appends when the list has not changed since it started
ImportAppendsWhenUnchanged ==
    [][ImportLoad /\ Head(reading).file # None /\ Head(reading).projects = projects
          => OnlyAppends]_vars

-----------------------------------------------------------------------------
(* C32: the view transform stored on the project *)

\* the step is the release that ends a pan gesture
PanReleased == isPanning /\ \E b \in buttons : MouseUp(b)

\* the step is a wheel zoom
WheelZoomed == \E deltaY \in WheelDeltas : Wheel(deltaY)

\* the project holds the view transform the canvas uses
ViewStored == project.viewTransform = viewTransform

\* C32: after every completed pan gesture and every wheel zoom, the
\* viewTransform stored on the project equals the viewTransform the canvas is
\* using.
C32_ViewStored == [][PanReleased \/ WheelZoomed => ViewStored']_vars

\* a pan gesture has ended and the project holds another view transform than
\* the canvas
C32_PannedNotStored ==
    /\ ~isPanning
    /\ buttons = {}
    /\ project.viewTransform.offsetX # viewTransform.offsetX
    /\ project.viewTransform.scaleN = viewTransform.scaleN
    /\ project.viewTransform.scaleD = viewTransform.scaleD

\* a wheel zoom stores the view transform it sets on the project
WheelStoresView == [][WheelZoomed => ViewStored']_vars

\* no move and no release of a pan gesture touches the project
PanKeepsProject ==
    [][isPanning /\ ((\E p \in ViewPoints : MouseMove(p)) \/ PanReleased)
          => project' = project]_vars

-----------------------------------------------------------------------------
(* C33: the press on empty canvas, PotentialSelect and BoxSelecting *)

\* the step is a pointer-down with the select tool on empty canvas: no pan
\* button, no handle and no element under the pointer
EmptyPress(press) ==
    /\ MouseDown(press)
    /\ ~IsPanButton(press)
    /\ tool = "select"
    /\ ~OnRotationHandle(PointerPoint)
    /\ ~OnScaleHandle(PointerPoint)
    /\ findElementAt(PointerPoint.x, PointerPoint.y) = NoElement

\* the pointer, after the step, is more than 5 from the down-point
FarFromDown ==
    LET ddx == PointerPoint'.x - drawStart.x
        ddy == PointerPoint'.y - drawStart.y
    IN ddx * ddx + ddy * ddy > 25

\* the step is a pointer-move
MoveStep == \E p \in Points \cup BoxPoints \cup {DoorScreen(q) : q \in BoxPoints} : MouseMove(p)

\* C33: a pointer-down with the select tool on empty canvas clears the
\* selection unless shift is held and enters PotentialSelect; the session
\* upgrades to BoxSelecting on the first pointer-move whose distance from the
\* down-point exceeds 5 and not before; a release while still in PotentialSelect
\* returns to Idle with no further selection change.
C33_PotentialSelect ==
    [][/\ \A press \in Presses \cup BoxPresses :
             EmptyPress(press) =>
                 /\ potentialSelection'
                 /\ selectedElementIds' = IF press.shiftKey THEN selectedElementIds
                                          ELSE <<>>
       /\ (MoveStep /\ potentialSelection) =>
             /\ isSelecting' = FarFromDown
             /\ potentialSelection' = ~FarFromDown
       /\ (ReleaseStep /\ potentialSelection) =>
             /\ Idle'
             /\ selectedElementIds' = selectedElementIds]_vars

\* a press on empty canvas was released where it was made, and the session is
\* not Idle: BoxSelecting was left active by an earlier gesture
C33_ReleasedNotIdle ==
    /\ buttons = {}
    /\ ~potentialSelection
    /\ isSelecting /\ selectionBox = None
    /\ drawStart = PointerPoint

\* C33 for the sessions in which no other mode is active beside PotentialSelect
PotentialSelectAlone ==
    [][/\ \A press \in Presses \cup BoxPresses :
             EmptyPress(press) =>
                 /\ potentialSelection'
                 /\ selectedElementIds' = IF press.shiftKey THEN selectedElementIds
                                          ELSE <<>>
       /\ (MoveStep /\ potentialSelection /\ ActiveModes = {"PotentialSelect"}) =>
             /\ isSelecting' = FarFromDown
             /\ potentialSelection' = ~FarFromDown
       /\ (ReleaseStep /\ potentialSelection /\ ActiveModes = {"PotentialSelect"}) =>
             /\ Idle'
             /\ selectedElementIds' = selectedElementIds]_vars

\* a press on empty canvas with shift held has kept the selection
ShiftPressKept == potentialSelection /\ selectedElementIds # <<>>

\* a move of 5 or less has left the session in PotentialSelect
NearMoveKept ==
    /\ potentialSelection /\ ~isSelecting
    /\ PointerPoint # drawStart

\* a move of more than 5 has upgraded the session to BoxSelecting
UpgradedToBox == isSelecting /\ ~potentialSelection /\ buttons # {}

-----------------------------------------------------------------------------
(* Rotating gestures: a rectangle or a wall is selected, the left button is   *)
(* pressed on the rotation handle and the pointer visits points on the axes   *)
(* through the element's centre.  probe keeps what the gesture started from   *)
(* and the angles of the pointer.                                             *)

MaxRotateEvents == 6

\* the canvas points the pointer visits: above, right of, below and left of
\* the centre of the rectangle and of the wall, and the handles
RotatePoints ==
    { [x |-> 20, y |-> 20], [x |-> 60, y |-> 60], [x |-> 20, y |-> 100],
      [x |-> 0, y |-> 60], [x |-> 20, y |-> 80], [x |-> 20, y |-> 120],
      [x |-> 0, y |-> 110] }

\* Math.atan2(point.y - bounds.centerY, point.x - bounds.centerX)
AngleAbout(point, element) ==
    LET a == AngleArgs(point, element)
    IN Atan2(a.dy, a.dx)

\* onMouseDown, recording the element and the angle of the press when the
\* press starts a Rotating gesture
RotateDown ==
    /\ mouse.inside
    /\ 0 \notin buttons
    /\ buttons' = buttons \cup {0}
    /\ mouse' = mouse
    /\ Commit(handleMouseDown([clientX |-> mouse.x, clientY |-> mouse.y, button |-> 0,
                               shiftKey |-> FALSE, altKey |-> FALSE]))
    /\ probe' = IF OnRotationHandle(PointerPoint)
                THEN Some([element |-> HandleTarget,
                           down |-> AngleAbout(PointerPoint, HandleTarget),
                           last |-> AngleAbout(PointerPoint, HandleTarget),
                           moves |-> 0])
                ELSE None

\* onMouseMove, recording the angle of the pointer when the Rotating branch
\* handles the move
RotateTo(p) ==
    /\ ~mouse.inside \/ p.x # mouse.x \/ p.y # mouse.y
    /\ mouse' = [x |-> p.x, y |-> p.y, inside |-> TRUE]
    /\ Commit(MoveTo(p))
    /\ probe' = IF probe # None /\ InRotating
                   /\ FindById(selectedElementIds[1]) # NoElement
                THEN Some([probe[1] EXCEPT
                              !.last = AngleAbout(p, FindById(selectedElementIds[1])),
                              !.moves = @ + 1])
                ELSE probe
    /\ UNCHANGED buttons

InitRotate ==
    /\ project = [elements |-> InitialElements, pixelsPerCm |-> PixelsPerCmDefault]
    /\ selectedElementIds \in {<<1>>, <<3>>}
    /\ probe = None
    /\ tool = "select"
    /\ history = <<>>
    /\ historyIndex = -1
    /\ viewTransform = [scaleN |-> 1, scaleD |-> 1, offsetX |-> 0, offsetY |-> 0]
    /\ InitSession
    /\ nextId = 4
    /\ buttons = {}
    /\ mouse \in {[x |-> 20, y |-> 20, inside |-> TRUE], [x |-> 20, y |-> 80, inside |-> TRUE]}
    /\ events = 0

NextRotate ==
    \/ Tick(MaxRotateEvents) /\ RotateDown
    \/ \E p \in RotatePoints : Tick(MaxRotateEvents) /\ RotateTo(p)
    \/ \E b \in buttons : Tick(MaxRotateEvents) /\ MouseUp(b)

SpecRotate == InitRotate /\ [][NextRotate]_vars

-----------------------------------------------------------------------------
(* C34: the rotation of a Rotating gesture *)

\* the selected element of a Rotating gesture in progress
RotatingElement == FindById(selectedElementIds[1])

\* C34: during Rotating, when each emitted update is applied before the next
\* pointer-move is handled, the element's rotation after any sequence of moves
\* equals its rotation at pointer-down plus (the angle of the last pointer
\* position about the element's centre - the angle of the pointer-down position
\* about it); no field other than rotation is changed by the gesture.
C34_RotationFollowsAngle ==
    (isRotating /\ probe # None) =>
        IF probe[1].moves = 0 THEN RotatingElement = probe[1].element
        ELSE RotatingElement =
                Merge(probe[1].element,
                      [rotation |-> Rotation(probe[1].element)
                                      + (probe[1].last - probe[1].down)])

\* a gesture that started from a turned element has had two moves or more and
\* has crossed the cut of atan2 (from the left of the centre to above it)
C34_TurnedTwice ==
    /\ isRotating /\ probe # None
    /\ probe[1].moves >= 2
    /\ Rotation(probe[1].element) # 0
    /\ probe[1].last # probe[1].down
    /\ Rotation(RotatingElement) # Rotation(probe[1].element)

\* the wall has been turned
WallTurned ==
    /\ isRotating /\ probe # None /\ probe[1].moves >= 1
    /\ RotatingElement.type = "line"

\* the angle has jumped by three quarter turns or more between two moves
CutCrossed ==
    /\ isRotating /\ probe # None /\ probe[1].moves >= 1
    /\ Abs(Rotation(RotatingElement)) >= 3

-----------------------------------------------------------------------------
(* C35: candidates at the same distance *)

\* the sides of a rectangle in the order top, bottom, left, right
SideOrder == <<"top", "bottom", "left", "right">>

\* the candidates of one element, in the order they are scanned
ScanOf(el) ==
    CASE el.type = "line" ->
           << [x |-> el.x, y |-> el.y, endX |-> el.endX, endY |-> el.endY,
               ref |-> [attachedToLine |-> el.id]] >>
      [] el.type = "rectangle" ->
           [k \in 1..4 |->
               LET side == CHOOSE r \in SeqToSet(RectangleSides(el)) : r.side = SideOrder[k]
               IN [x |-> side.x, y |-> side.y, endX |-> side.endX, endY |-> side.endY,
                   ref |-> [attachedToRectangle |-> el.id, attachmentSide |-> side.side]]]
      [] OTHER -> <<>>

\* the candidates of the elements from i on, in list order
RECURSIVE ScanFrom(_)
ScanFrom(i) ==
    IF i > Len(project.elements) THEN <<>>
    ELSE ScanOf(project.elements[i]) \o ScanFrom(i + 1)

\* the first candidate of scan at the least distance from p
FirstNearest(p, scan) ==
    CHOOSE j \in DOMAIN scan :
        /\ \A k \in DOMAIN scan : RatLe(SegmentDistance(p, scan[j]), SegmentDistance(p, scan[k]))
        /\ \A k \in 1..(j - 1) :
              ~RatLe(SegmentDistance(p, scan[k]), SegmentDistance(p, scan[j]))

\* the attachment reference of a result
RefOf(n) == [k \in DOMAIN n \ {"x", "y", "rotation", "distance"} |-> n[k]]

\* C35: when several candidate segments are at exactly the same minimum
\* distance from the point, findNearestLineOrWall returns the one scanned
\* first: the element earlier in list order and, within one Rectangle, the side
\* earlier in the order top, bottom, left, right.
C35_FirstOfTies ==
    (probe # None /\ Has(probe[1], "nearest") /\ ScanFrom(1) # <<>>) =>
        LET p == probe[1].point
            scan == ScanFrom(1)
            first == scan[FirstNearest(p, scan)]
        IN RatLt(SegmentDistance(p, first), <<30 * 30, ScaleN * ScaleN>>)
              => /\ RefOf(probe[1].nearest) = first.ref
                 /\ RatEq(probe[1].nearest.distance, SegmentDistance(p, first))

\* two candidates are at the least distance from the point queried
TiedCandidates(c, d) ==
    /\ c # d
    /\ IsNearest(probe[1].point, c) /\ IsNearest(probe[1].point, d)
    /\ RefOf(probe[1].nearest) = c.ref

\* C35: a query off a corner of the rectangle, at the same distance from two
\* of its sides, and a query at the same distance from a wall and a side of
\* the rectangle that follows it in the list
C35_TieAtCorner ==
    /\ probe # None /\ Has(probe[1], "nearest")
    /\ \E c, d \in SnapCandidates :
          /\ TiedCandidates(c, d)
          /\ Has(c.ref, "attachedToRectangle") /\ Has(d.ref, "attachedToRectangle")
          /\ c.ref.attachmentSide = "bottom" /\ d.ref.attachmentSide = "right"

\* a wall and a side of the rectangle are tied, and the rectangle comes first
TieAcrossElements ==
    /\ probe # None /\ Has(probe[1], "nearest")
    /\ \E c, d \in SnapCandidates :
          /\ TiedCandidates(c, d)
          /\ Has(c.ref, "attachedToRectangle") /\ Has(d.ref, "attachedToLine")

-----------------------------------------------------------------------------
(* Dragging a door with other elements selected: the canvases of the door     *)
(* drags, the rectangle locked or not, and the door selected together with    *)
(* the rectangle or the wall                                                  *)

MaxMultiEvents == 4

\* the canvas points the pointer visits: those of the door drags and a point
\* inside the rectangle
MultiPoints == DoorPoints \cup {[x |-> 80, y |-> 60]}

\* the elements with the rectangle locked
LockRectangle(elements) ==
    [i \in DOMAIN elements |->
        IF elements[i].type = "rectangle" THEN Merge(elements[i], [locked |-> TRUE])
        ELSE elements[i]]

InitMulti ==
    /\ \E c \in DoorCases, zoom \in {1, 2}, locked \in BOOLEAN :
        /\ project = [elements |-> IF locked THEN LockRectangle(Append(DoorWalls, c.door))
                                   ELSE Append(DoorWalls, c.door),
                      pixelsPerCm |-> PixelsPerCmDefault]
        /\ viewTransform = [scaleN |-> zoom, scaleD |-> 1, offsetX |-> 0, offsetY |-> 0]
        /\ mouse = [x |-> c.grab.x * zoom, y |-> c.grab.y * zoom, inside |-> TRUE]
    /\ selectedElementIds \in {<<3, 2>>, <<1, 3>>}
    /\ tool = "select"
    /\ history = <<>>
    /\ historyIndex = -1
    /\ InitSession
    /\ nextId = 5
    /\ buttons = {}
    /\ events = 0
    /\ probe = None

NextMulti ==
    \/ Tick(MaxMultiEvents) /\ MouseDown(LeftPress)
    \/ \E p \in MultiPoints : Tick(MaxMultiEvents) /\ MouseMove(DoorScreen(p))
    \/ \E b \in buttons : Tick(MaxMultiEvents) /\ MouseUp(b)

SpecMulti == InitMulti /\ [][NextMulti]_vars

-----------------------------------------------------------------------------
(* C36: a door dragged as part of a selection of two or more elements *)

\* the step is the pointer-move to the canvas point p of a drag, the door being
\* one of two or more selected elements and in the snapshot
MultiDoorDrag(p) ==
    /\ MouseMove(DoorScreen(p)) /\ DragBranch
    /\ Len(selectedElementIds) >= 2
    /\ Includes(selectedElementIds, 3)
    /\ 3 \in DOMAIN elementStartPositions
    /\ FindById(3) # NoElement /\ FindById(3).type = "door"

\* the door after the step is the door before it, at its snapshot position
\* plus the pointer delta
MovedByRawDelta(p) ==
    SameElementIn(project', [id |-> 3]) =
        Merge(FindById(3), [x |-> elementStartPositions[3].x + (p.x - dragStart.x),
                            y |-> elementStartPositions[3].y + (p.y - dragStart.y)])

\* C36: when a Door is dragged as part of a selection of two or more elements
\* it is moved by the raw delta from its snapshot position: its attachment is
\* ignored, no wall projection or snap search is run, and its rotation is left
\* unchanged.
C36_RawDelta ==
    [][\A p \in MultiPoints : MultiDoorDrag(p) => MovedByRawDelta(p)]_vars

\* the door is dragged with the locked rectangle selected, and it does not sit
\* at its snapshot position plus the pointer delta
C36_ProjectedInSelection ==
    /\ isDragging /\ dragReferenceId = 3
    /\ Len(selectedElementIds) >= 2 /\ Includes(selectedElementIds, 3)
    /\ DOMAIN elementStartPositions = {3}
    /\ \E i \in DOMAIN project.elements :
          project.elements[i].type = "rectangle" /\ Locked(project.elements[i])
             /\ Includes(selectedElementIds, project.elements[i].id)
    /\ \/ FindById(3).x # elementStartPositions[3].x + (PointerPoint.x - dragStart.x)
       \/ FindById(3).y # elementStartPositions[3].y + (PointerPoint.y - dragStart.y)

\* the door is moved by the raw delta when the snapshot holds two or more
\* elements
RawDeltaWhenSnapshotMulti ==
    [][\A p \in MultiPoints :
          (MultiDoorDrag(p) /\ Cardinality(DOMAIN elementStartPositions) >= 2)
              => MovedByRawDelta(p)]_vars

\* an attached door has been moved off its wall together with the wall or the
\* rectangle
MovedOffWall ==
    /\ isDragging
    /\ Cardinality(DOMAIN elementStartPositions) >= 2
    /\ AttachedSegments(FindById(3)) # {}
    /\ \A c \in AttachedSegments(FindById(3)) :
          (FindById(3).x - c.x) * (c.endY - c.y) # (FindById(3).y - c.y) * (c.endX - c.x)

\* the door has been moved with the rectangle as the reference of the drag
MovedWithRectangle ==
    /\ isDragging /\ dragReferenceId = 2
    /\ 3 \in DOMAIN elementStartPositions
    /\ FindById(3).x # elementStartPositions[3].x

-----------------------------------------------------------------------------
(* Hit tolerance: a canvas with one door, turned by each quarter, or with one *)
(* line, queried at points 3, 4, 5, 7 and 10 from the leaf and around the     *)
(* arc end, at zoom 1 and 2                                                   *)

TolScenes ==
    { << [id |-> 1, type |-> "door", x |-> 20, y |-> 20, width |-> 20, rotation |-> r] >> :
         r \in 0..3 }
    \cup
    { << [id |-> 1, type |-> "line", x |-> 20, y |-> 20, endX |-> 40, endY |-> 20,
          lengthCm |-> <<20, PixelsPerCmDefault>>] >>,
      << [id |-> 1, type |-> "line", x |-> 20, y |-> 20, endX |-> 20, endY |-> 40,
          lengthCm |-> <<20, PixelsPerCmDefault>>] >> }

TolPoints ==
    { [x |-> 30, y |-> 20], [x |-> 30, y |-> 23], [x |-> 30, y |-> 25],
      [x |-> 30, y |-> 27], [x |-> 30, y |-> 30], [x |-> 16, y |-> 20],
      [x |-> 40, y |-> 25], [x |-> 45, y |-> 26], [x |-> 45, y |-> 30],
      [x |-> 17, y |-> 30], [x |-> 13, y |-> 30], [x |-> 15, y |-> 45],
      [x |-> 60, y |-> 60] }

InitTol == InitQuery(TolScenes)

NextTol == \E p \in TolPoints : HitProbe(p)

SpecTol == InitTol /\ [][NextTol]_vars

-----------------------------------------------------------------------------
(* C37: the hit tolerance of lines and doors *)

\* the one element of the canvas, and whether the query has hit it
Probed == project.elements[1]
ProbeHit == probe[1].found # NoElement

\* the point queried in the frame of the door: the hinge at the origin, the
\* leaf along the x axis
LocalOf(door) ==
    LET dx == probe[1].x - door.x
        dy == probe[1].y - door.y
    IN CASE Rotation(door) % 4 = 0 -> [x |-> dx, y |-> dy]
         [] Rotation(door) % 4 = 1 -> [x |-> dy, y |-> -dx]
         [] Rotation(door) % 4 = 2 -> [x |-> -dx, y |-> -dy]
         [] Rotation(door) % 4 = 3 -> [x |-> -dy, y |-> dx]

\* the point lies beside the leaf, between its ends, at most tol/scale from it
InLeafBand(door, tol) ==
    /\ Abs(LocalOf(door).y) * ScaleN <= tol * ScaleD
    /\ 0 <= LocalOf(door).x /\ LocalOf(door).x <= door.width

\* k times the square of the distance from the point to the arc-end segment,
\* from (w, 0) to (w + w*sqrt(3)/2, w/2) in the frame of the door, as a number
\* a + b*sqrt(3): the foot of the perpendicular lies before the segment when
\* a*sqrt(3) + b < 0 and after it when a*sqrt(3) + b > 2w
ArcEndDistSq(door) ==
    LET w == door.width
        a == LocalOf(door).x - w
        b == LocalOf(door).y
    IN IF w = 0 \/ R3Sign(<<b, a>>) < 0
       THEN [v |-> <<a * a + b * b, 0>>, k |-> 1]
       ELSE IF R3Sign(<<b - 2 * w, a>>) > 0
       THEN [v |-> <<a * a + b * b + w * w - w * b, -(w * a)>>, k |-> 1]
       ELSE [v |-> <<a * a + 3 * b * b, -(2 * a * b)>>, k |-> 4]

\* the distance to the arc-end segment is at most (strictly below) tol/scale
ArcEndWithin(door, tol) ==
    R3Le(R3Scale(ScaleN * ScaleN, ArcEndDistSq(door).v),
         <<ArcEndDistSq(door).k * tol * tol * ScaleD * ScaleD, 0>>)
ArcEndBelow(door, tol) ==
    R3Lt(R3Scale(ScaleN * ScaleN, ArcEndDistSq(door).v),
         <<ArcEndDistSq(door).k * tol * tol * ScaleD * ScaleD, 0>>)

\* the square of the distance from the point to the segment of a line, or to
\* the leaf of a door, is below (tol/scale)^2
SegmentBelow(x1, y1, x2, y2, tol) ==
    RatLt(pointToLineDistance(probe[1].x, probe[1].y, x1, y1, x2, y2),
          <<tol * tol * ScaleD * ScaleD, ScaleN * ScaleN>>)
LeafBelow(door, tol) ==
    SegmentBelow(door.x, door.y,
                 door.x + door.width * Cos(Rotation(door)),
                 door.y + door.width * Sin(Rotation(door)), tol)

\* C37 as stated: the hit tolerance is the same 10px-equivalent for Lines and
\* Doors: a point within 10/scale of a Door's leaf segment or of its arc-end
\* segment hits the door, just as a point within 10/scale of a Line's segment
\* hits the line.
C37_SameTolerance ==
    (probe # None /\ Has(probe[1], "found")) =>
        CASE Probed.type = "line" ->
               SegmentBelow(Probed.x, Probed.y, Probed.endX, Probed.endY, 10) => ProbeHit
          [] Probed.type = "door" ->
               (LeafBelow(Probed, 10) \/ ArcEndBelow(Probed, 10)) => ProbeHit

\* C37 amended: a Line is hit exactly by the points less than 10/scale from its
\* segment; a Door is hit exactly by the points beside its leaf, between the
\* hinge and the latch end, at most 5/scale from it, and by the points at most
\* 5/scale from its arc-end segment.
C37_DoorToleranceFive ==
    (probe # None /\ Has(probe[1], "found")) =>
        CASE Probed.type = "line" ->
               ProbeHit = SegmentBelow(Probed.x, Probed.y, Probed.endX, Probed.endY, 10)
          [] Probed.type = "door" ->
               ProbeHit = (InLeafBand(Probed, 5) \/ ArcEndWithin(Probed, 5))

\* a point 7 from the leaf of the door, beside it, has missed the door
C37_SevenFromLeafMissed ==
    /\ probe # None /\ Has(probe[1], "found")
    /\ Probed.type = "door" /\ ScaleN = ScaleD
    /\ InLeafBand(Probed, 7) /\ ~InLeafBand(Probed, 6)
    /\ ~ProbeHit

\* a point 7 from the line has hit it
SevenFromLineHit ==
    /\ probe # None /\ Has(probe[1], "found")
    /\ Probed.type = "line" /\ ScaleN = ScaleD
    /\ SegmentBelow(Probed.x, Probed.y, Probed.endX, Probed.endY, 8)
    /\ ~SegmentBelow(Probed.x, Probed.y, Probed.endX, Probed.endY, 7)
    /\ ProbeHit

\* a point past the latch end has hit the door by its arc-end segment alone
HitByArcEnd ==
    /\ probe # None /\ Has(probe[1], "found")
    /\ Probed.type = "door"
    /\ ~InLeafBand(Probed, 5) /\ ArcEndWithin(Probed, 5)
    /\ ProbeHit

\* a point 4 before the hinge, on the line of the leaf, has missed the door
BeforeHingeMissed ==
    /\ probe # None /\ Has(probe[1], "found")
    /\ Probed.type = "door" /\ ScaleN = ScaleD
    /\ LeafBelow(Probed, 5) /\ ~InLeafBand(Probed, 5)
    /\ ~ProbeHit

\* a point exactly 5 from the leaf has hit the door, a point exactly 10 from
\* the line has missed it
AtToleranceOfDoor ==
    /\ probe # None /\ Has(probe[1], "found")
    /\ Probed.type = "door" /\ ScaleN = ScaleD
    /\ InLeafBand(Probed, 5) /\ ~InLeafBand(Probed, 4)
    /\ ProbeHit
AtToleranceOfLine ==
    /\ probe # None /\ Has(probe[1], "found")
    /\ Probed.type = "line" /\ ScaleN = ScaleD
    /\ ~SegmentBelow(Probed.x, Probed.y, Probed.endX, Probed.endY, 10)
    /\ SegmentBelow(Probed.x, Probed.y, Probed.endX, Probed.endY, 11)
    /\ ~ProbeHit

-----------------------------------------------------------------------------
(* Degenerate walls: a Line of length 0 and a Rectangle of width 0, whose top *)
(* and bottom sides have length 0, with a door attached to one of them and    *)
(* selected alone                                                             *)

MaxDegenerateEvents == 4

DegenerateWalls ==
    << [id |-> 1, type |-> "line", x |-> 20, y |-> 100, endX |-> 20, endY |-> 100,
        lengthCm |-> <<0, PixelsPerCmDefault>>],
       [id |-> 2, type |-> "rectangle", x |-> 60, y |-> 20, width |-> 0, height |-> 40,
        widthCm |-> <<0, PixelsPerCmDefault>>, heightCm |-> <<40, PixelsPerCmDefault>>] >>

DegenerateCases ==
    { [door |-> DoorAt(20, 100, 0, [attachedToLine |-> 1]), grab |-> [x |-> 30, y |-> 100]],
      [door |-> DoorAt(60, 20, 0, [attachedToRectangle |-> 2, attachmentSide |-> "top"]),
       grab |-> [x |-> 70, y |-> 20]],
      [door |-> DoorAt(60, 30, 1, [attachedToRectangle |-> 2, attachmentSide |-> "left"]),
       grab |-> [x |-> 60, y |-> 40]] }

InitDegenerate ==
    /\ \E c \in DegenerateCases, zoom \in {1, 2} :
        /\ project = [elements |-> Append(DegenerateWalls, c.door),
                      pixelsPerCm |-> PixelsPerCmDefault]
        /\ viewTransform = [scaleN |-> zoom, scaleD |-> 1, offsetX |-> 0, offsetY |-> 0]
        /\ mouse = [x |-> c.grab.x * zoom, y |-> c.grab.y * zoom, inside |-> TRUE]
    /\ selectedElementIds = <<3>>
    /\ tool = "select"
    /\ history = <<>>
    /\ historyIndex = -1
    /\ InitSession
    /\ nextId = 5
    /\ buttons = {}
    /\ events = 0
    /\ probe = None

NextDegenerate ==
    \/ Tick(MaxDegenerateEvents) /\ MouseDown(LeftPress)
    \/ \E p \in DoorPoints : Tick(MaxDegenerateEvents) /\ MouseMove(DoorScreen(p))
    \/ \E b \in buttons : Tick(MaxDegenerateEvents) /\ MouseUp(b)

SpecDegenerate == InitDegenerate /\ [][NextDegenerate]_vars

-----------------------------------------------------------------------------
(* C38: degenerate geometry *)

\* the segment has length 0
ZeroLength(c) == c.x = c.endX /\ c.y = c.endY

\* the door lies at the single point of the segment c
AtPointOf(door, c) == door.x = c.x /\ door.y = c.y

\* C38: degenerate geometry never produces an undefined result: the
\* point-to-segment distance to a zero-length segment is the distance to its
\* single point, and a pointer-move of the drag of a sole-selected Door attached
\* to a zero-length Line, or to a zero-length side of a Rectangle of width or
\* height 0, leaves the door at a defined position equal to that point.
C38_DegenerateDefined ==
    [][\A p \in DoorPoints :
          /\ \A c \in SnapCandidates :
                ZeroLength(c) =>
                    SegmentDistance(p, c) =
                        <<(p.x - c.x) * (p.x - c.x) + (p.y - c.y) * (p.y - c.y), 1>>
          /\ SoleDoorDrag(p) =>
                \A c \in AttachedSegments(FindById(3)) :
                    ZeroLength(c) =>
                        /\ SameElementIn(project', [id |-> 3]).x # NaN
                        /\ SameElementIn(project', [id |-> 3]).y # NaN
                        /\ AtPointOf(SameElementIn(project', [id |-> 3]), c)]_vars

\* C38: the drag of a door attached to the zero-length top side of a Rectangle
\* of width 0 has left the door without a position, while its rotation is 0
C38_DoorOnZeroSideUndefined ==
    /\ isDragging /\ dragReferenceId = 3
    /\ Has(FindById(3), "attachedToRectangle")
    /\ FindById(3).x = NaN /\ FindById(3).y = NaN /\ Rotation(FindById(3)) = 0
    /\ \E c \in AttachedSegments(FindById(3)) : ZeroLength(c)

\* the same for a door attached to a Line of length 0
DoorOnZeroLineUndefined ==
    /\ isDragging /\ dragReferenceId = 3
    /\ Has(FindById(3), "attachedToLine")
    /\ FindById(3).x = NaN /\ FindById(3).y = NaN
    /\ FindTyped(FindById(3).attachedToLine, "line") # NoElement
    /\ ZeroLength(FindTyped(FindById(3).attachedToLine, "line"))

\* the distance to a zero-length segment is the distance to its point
ZeroLengthDistance ==
    \A p \in DoorPoints : \A c \in SnapCandidates :
        ZeroLength(c) =>
            SegmentDistance(p, c) =
                <<(p.x - c.x) * (p.x - c.x) + (p.y - c.y) * (p.y - c.y), 1>>

\* on the side of positive length of the same Rectangle the door slides
SlidesOnProperSide ==
    [][\A p \in DoorPoints :
          SoleDoorDrag(p) =>
              \A c \in AttachedSegments(FindById(3)) :
                  ~ZeroLength(c) => SlidOnto(p, SameElementIn(project', [id |-> 3]), c)]_vars

\* a drag has moved the door along the left side of the Rectangle of width 0
SlidOnProperSide ==
    /\ isDragging /\ dragReferenceId = 3
    /\ Has(FindById(3), "attachmentSide") /\ FindById(3).attachmentSide = "left"
    /\ FindById(3).x = 60 /\ FindById(3).y # 30

-----------------------------------------------------------------------------
(* Copies: a canvas with a rectangle and a wall, one or both selected, and the *)
(* keys that copy, paste, duplicate, move and delete                           *)

MaxCopyEvents == 4

CopyScene ==
    << InitialElements[1],
       [id |-> 3, type |-> "line", x |-> 0, y |-> 10, endX |-> 40, endY |-> 10,
        lengthCm |-> <<40, PixelsPerCmDefault>>] >>

CopyEvents ==
    { [key |-> k, shiftKey |-> FALSE, ctrlKey |-> FALSE, altKey |-> FALSE,
       target |-> "BODY"] : k \in {"Delete", "ArrowLeft"} }
    \cup
    { [key |-> k, shiftKey |-> FALSE, ctrlKey |-> TRUE, altKey |-> FALSE,
       target |-> t] : k \in {"c", "v", "d"}, t \in {"BODY", "INPUT"} }

InitCopy ==
    /\ project = [elements |-> CopyScene, pixelsPerCm |-> PixelsPerCmDefault]
    /\ selectedElementIds \in {<<1>>, <<3>>, <<1, 3>>, <<3, 1>>}
    /\ copiedElements = <<>>
    /\ tool = "select"
    /\ history = <<>>
    /\ historyIndex = -1
    /\ viewTransform = [scaleN |-> 1, scaleD |-> 1, offsetX |-> 0, offsetY |-> 0]
    /\ InitSession
    /\ nextId = 4
    /\ buttons = {}
    /\ mouse = [x |-> 20, y |-> 60, inside |-> FALSE]
    /\ events = 0
    /\ probe = None

NextCopy == \E e \in CopyEvents : Tick(MaxCopyEvents) /\ Key(e)

SpecCopy == InitCopy /\ [][NextCopy]_vars

-----------------------------------------------------------------------------
(* C39: paste and duplicate *)

\* the keydown of Ctrl+V or Ctrl+D outside an input field
PasteKey == [key |-> "v", shiftKey |-> FALSE, ctrlKey |-> TRUE, altKey |-> FALSE,
             target |-> "BODY"]
DuplicateKey == [key |-> "d", shiftKey |-> FALSE, ctrlKey |-> TRUE, altKey |-> FALSE,
                 target |-> "BODY"]

\* the coordinates of an element that a copy shifts
ShiftedFields(el) == IF el.type = "line" THEN {"x", "y", "endX", "endY"} ELSE {"x", "y"}

\* new is src with another id and its coordinates shifted by (20, 20)
IsShiftedCopy(new, src) ==
    /\ DOMAIN new = DOMAIN src
    /\ \A k \in ShiftedFields(src) : new[k] = src[k] + 20
    /\ \A k \in DOMAIN src \ (ShiftedFields(src) \cup {"id"}) : new[k] = src[k]

\* the step has added one shifted copy per element of source, each with an id
\* no element had and no other copy has, after the elements there were, which
\* it has left as they were, and has selected exactly the copies
CopiesAdded(source) ==
    LET old == Len(project.elements)
        added == [i \in 1..(Len(project'.elements) - old) |-> project'.elements[old + i]]
    IN /\ Len(project'.elements) = old + Len(source)
       /\ SubSeq(project'.elements, 1, old) = project.elements
       /\ \A i \in DOMAIN added :
            /\ IsShiftedCopy(added[i], source[i])
            /\ \A j \in DOMAIN project.elements : project.elements[j].id # added[i].id
            /\ \A j \in DOMAIN added : j # i => added[j].id # added[i].id
       /\ selectedElementIds' = [i \in DOMAIN added |-> added[i].id]

\* the selected elements that exist, in the order of the canvas
SelectedNow ==
    SelectSeq(project.elements,
              LAMBDA el : \E i \in DOMAIN selectedElementIds : selectedElementIds[i] = el.id)

\* C39: paste and duplicate add exactly one new element per source element,
\* each with a fresh id and with x, y and a Line's end point offset by exactly
\* (20, 20), leave every existing element unchanged and set the selection to
\* exactly the new elements; paste uses the elements as they were when copied,
\* whatever was edited or deleted since.
C39_CopiesAdded ==
    [][/\ (Key(PasteKey) /\ Len(copiedElements) > 0) => CopiesAdded(copiedElements)
       /\ (Key(DuplicateKey) /\ Len(selectedElementIds) > 0) => CopiesAdded(SelectedNow)]_vars

\* C39: the rectangle and the wall were copied and then deleted, and a paste
\* has added their copies, 20 to the right and 20 below where they were, and
\* selected them
C39_PastedAfterDelete ==
    /\ probe = <<PasteKey>>
    /\ Len(copiedElements) = 2
    /\ \A i \in 1..2 : FindById(copiedElements[i].id) = NoElement
    /\ Len(project.elements) = 2 /\ Len(selectedElementIds) = 2
    /\ \A i \in 1..2 :
          /\ selectedElementIds[i] = project.elements[i].id
          /\ IsShiftedCopy(project.elements[i], copiedElements[i])

\* the rectangle was copied and then moved, and the paste has copied it from
\* where it was when copied
PastedAfterNudge ==
    /\ probe = <<PasteKey>>
    /\ Len(copiedElements) = 1 /\ copiedElements[1].id = 1
    /\ FindById(1) # NoElement /\ FindById(1).x # copiedElements[1].x
    /\ Len(selectedElementIds) = 1
    /\ FindById(selectedElementIds[1]) # NoElement
    /\ IsShiftedCopy(FindById(selectedElementIds[1]), copiedElements[1])

\* the rectangle and the wall were duplicated together
DuplicatedTwo ==
    /\ probe = <<DuplicateKey>>
    /\ Len(project.elements) = 4
    /\ selectedElementIds = <<project.elements[3].id, project.elements[4].id>>
    /\ project.elements[4].type = "line"
    /\ project.elements[4].endX = project.elements[2].endX + 20

\* pasted twice, the two copies lie on each other
PastedTwice ==
    /\ probe = <<PasteKey>>
    /\ Len(project.elements) = 4
    /\ project.elements[3].x = project.elements[4].x
    /\ project.elements[3].type = project.elements[4].type
    /\ project.elements[3].id # project.elements[4].id

=============================================================================
